---------------------------- MODULE Spec2Model ----------------------------
(***************************************************************************)
(* Model of the hand-rolled container library                              *)
(*   training-grounds/leetcode-top-75/shared/python/ds.py                  *)
(* ArrayList, LinkedList, Stack, Queue, MinHeap and MaxHeap.               *)
(*                                                                         *)
(* An ArrayList object is the record [capacity, size, data]; data is the   *)
(* Python list _data, a function on 0 .. len-1, so that every index of the *)
(* model is the index the code uses.  A call is an operator that returns   *)
(* the object after the call (a), the value returned (ret) and the         *)
(* exception raised (exc, NoExc when the call returns normally).           *)
(*                                                                         *)
(* The module also models the card generator of the flashcard tool,        *)
(*   _tools/anki-generator/cloze_generator.py                              *)
(* class ClozeGenerator: generate_cards and the card constructors it       *)
(* calls, on strings that are sequences of tokens.                         *)
(***************************************************************************)
EXTENDS Integers, Sequences, FiniteSets, Bags, TLC

VARIABLES
    arrArg,     \* the capacity argument arr was constructed with
    arr,        \* an ArrayList used directly by a caller
    arrAdds,    \* the values given to arr.add so far, in call order
    arrGrowths, \* how many times arr._grow ran
    snap,       \* the list the caller holds from arr.to_list(), if any
    stack,      \* Stack._items, an ArrayList
    stackIn,    \* the values pushed on the stack, in call order
    stackOut,   \* the values returned by Stack.pop, in call order
    stackRef,   \* the values pushed and not yet popped, oldest first
    queue,      \* Queue._items, a LinkedList
    queueIn,    \* the values enqueued, in call order
    queueOut,   \* the values returned by Queue.dequeue, in call order
    queueRef,   \* the values enqueued and not yet dequeued, oldest first
    minHeap,    \* MinHeap._data, an ArrayList
    maxHeap,    \* MaxHeap._data, an ArrayList
    minBag,     \* value -> copies pushed on minHeap and not yet popped
    maxBag,     \* value -> copies pushed on maxHeap and not yet popped
    sortIn,     \* the integers a caller pushes on both heaps, in order
    minOut,     \* the values returned by MinHeap.pop, in call order
    maxOut,     \* the values returned by MaxHeap.pop, in call order
    filled,     \* the containers that have held an element at some time
    gen,        \* a call of ClozeGenerator.generate_cards: its arguments,
                \* its local variables and its position
    frame,      \* a heap method in progress: its object, its local
                \* variables and its position
    sol,        \* a function of solutions.py in progress: its arguments,
                \* its local variables and its position
    last        \* the most recent call: its name, arguments and outcome

vars == <<arrArg, arr, arrAdds, arrGrowths, snap, stack, stackIn, stackOut,
          stackRef, queue, queueIn, queueOut, queueRef, minHeap, maxHeap,
          minBag, maxBag, sortIn, minOut, maxOut,
          filled, gen, frame, sol, last>>

---------------------------------------------------------------------------
(* Values of the host language the model needs.                            *)

\* Python's None, a value outside every set of stored integers.
None == -1

\* No exception: the call returned normally.
NoExc == "-"

IndexError == "IndexError"

TypeError == "TypeError"

\* ArrayList.__init__'s default for its capacity argument.
DefaultCapacity == 4

---------------------------------------------------------------------------
(* Bounds of the model.                                                    *)

\* Largest size an ArrayList used directly may reach.
MaxArrSize == 5

\* Largest constructor argument tried besides the default.
MaxCapArg == 3

\* Most add calls in the add-only runs of an ArrayList.
MaxAdds == 5

\* Most pushes in the push-then-pop runs of a Stack.
MaxPushes == 6

\* Largest integer pushed on a Stack.
MaxStackVal == 2

\* Most enqueues in the enqueue-then-dequeue runs of a Queue.
MaxEnqueues == 5

\* Largest integer enqueued on a Queue.
MaxQueueVal == 3

\* Largest size a heap reaches under arbitrary interleavings.
MaxHeapSize == 5

\* Largest size a Stack or Queue reaches under arbitrary interleavings.
MaxUseSize == 2

\* Largest integer pushed on a heap under arbitrary interleavings.
MaxHeapVal == 3

\* Most integers in the push-all-then-pop-all runs of a heap.
MaxSortLen == 5

\* Largest size of an ArrayList whose to_list() result a caller holds.
MaxSnapSize == 3

---------------------------------------------------------------------------
(* Outcomes of calls, and the sequencing of calls.                         *)

\* The call returned v and left the object as a.
Return(a, v) == [a |-> a, ret |-> v, exc |-> NoExc]

\* The call raised e and left the object as a.
Raise(a, e) == [a |-> a, ret |-> None, exc |-> e]

\* The element of a one-element set.
Only(S) == CHOOSE x \in S : TRUE

\* Statement sequencing: the outcome x of one statement is computed, once,
\* and handed to the statements F that follow it.
With(x, F(_)) == Only({F(v) : v \in {x}})

---------------------------------------------------------------------------
(* Python lists.                                                           *)

ListLen(d) == Cardinality(DOMAIN d)

\* [None] * n
NoneList(n) == [i \in 0 .. n - 1 |-> None]

\* Whether d[i] is a valid subscript: Python accepts -len <= i < len.
ListIndexOk(d, i) == -ListLen(d) <= i /\ i < ListLen(d)

\* The position d[i] denotes (negative subscripts count from the end).
ListPos(d, i) == IF i < 0 THEN i + ListLen(d) ELSE i

---------------------------------------------------------------------------
(* class ArrayList                                                         *)

\* Variant of __init__ without the clamp of a capacity below 1.
ArrayList_init_unclamped(capacity) ==
    [capacity |-> capacity, size |-> 0, data |-> NoneList(capacity)]

\* Variant of __init__ that clamps only a negative capacity.
ArrayList_init_zero_allowed(capacity) ==
    LET c == IF capacity < 0 THEN 1 ELSE capacity
    IN  [capacity |-> c, size |-> 0, data |-> NoneList(c)]

ArrayList_init(capacity) ==
    LET c == IF capacity < 1 THEN 1 ELSE capacity
    IN  [capacity |-> c, size |-> 0, data |-> NoneList(c)]

\* Variant of _grow that makes room for one more element only.
ArrayList_grow_by_one(a) ==
    LET new_capacity == a.capacity + 1
        new_data == [i \in 0 .. new_capacity - 1 |->
                        IF i < a.size /\ i \in DOMAIN a.data
                        THEN a.data[i] ELSE None]
    IN  [a EXCEPT !.data = new_data, !.capacity = new_capacity]

\* Variant of _grow whose copy loop stops one element early.
ArrayList_grow_short_copy(a) ==
    LET new_capacity == a.capacity * 2
        new_data == [i \in 0 .. new_capacity - 1 |->
                        IF i < a.size - 1 /\ i \in DOMAIN a.data
                        THEN a.data[i] ELSE None]
    IN  [a EXCEPT !.data = new_data, !.capacity = new_capacity]

\* The copy loop reads _data[i] for i < size; size never exceeds the length
\* of _data when _grow is called from add.
ArrayList_grow(a) ==
    LET new_capacity == a.capacity * 2
        new_data == [i \in 0 .. new_capacity - 1 |->
                        IF i < a.size /\ i \in DOMAIN a.data
                        THEN a.data[i] ELSE None]
    IN  [a EXCEPT !.data = new_data, !.capacity = new_capacity]

ArrayList_add(a, value) ==
    With(IF a.size >= a.capacity THEN ArrayList_grow(a) ELSE a, LAMBDA g :
        IF ListIndexOk(g.data, g.size)
        THEN Return([g EXCEPT !.data[ListPos(g.data, g.size)] = value,
                              !.size = g.size + 1], None)
        ELSE Raise(g, IndexError))

\* Variant of get that checks the index against the capacity.
ArrayList_get_capacity_check(a, index) ==
    IF index < 0 \/ index >= a.capacity
    THEN Raise(a, IndexError)
    ELSE IF ListIndexOk(a.data, index)
         THEN Return(a, a.data[ListPos(a.data, index)])
         ELSE Raise(a, IndexError)

ArrayList_get(a, index) ==
    IF index < 0 \/ index >= a.size
    THEN Raise(a, IndexError)
    ELSE IF ListIndexOk(a.data, index)
         THEN Return(a, a.data[ListPos(a.data, index)])
         ELSE Raise(a, IndexError)

\* Variant of set whose upper check is off by one (index > size).
ArrayList_set_off_by_one(a, index, value) ==
    IF index < 0 \/ index > a.size
    THEN Raise(a, IndexError)
    ELSE IF ListIndexOk(a.data, index)
         THEN Return([a EXCEPT !.data[ListPos(a.data, index)] = value], None)
         ELSE Raise(a, IndexError)

ArrayList_set(a, index, value) ==
    IF index < 0 \/ index >= a.size
    THEN Raise(a, IndexError)
    ELSE IF ListIndexOk(a.data, index)
         THEN Return([a EXCEPT !.data[ListPos(a.data, index)] = value], None)
         ELSE Raise(a, IndexError)

ArrayList_size(a) == a.size

\* Variant of remove_last that decrements size before reading the value.
ArrayList_remove_last_early_decrement(a) ==
    IF a.size = 0
    THEN Return(a, None)
    ELSE IF ListIndexOk(a.data, a.size - 2)
         THEN [a   |-> [a EXCEPT !.data[ListPos(a.data, a.size - 2)] = None,
                                 !.size = a.size - 1],
               ret |-> a.data[ListPos(a.data, a.size - 2)],
               exc |-> NoExc]
         ELSE Raise(a, IndexError)

\* Variant of remove_last without the test for an empty array.
ArrayList_remove_last_unchecked(a) ==
    IF ListIndexOk(a.data, a.size - 1)
    THEN [a   |-> [a EXCEPT !.data[ListPos(a.data, a.size - 1)] = None,
                            !.size = a.size - 1],
          ret |-> a.data[ListPos(a.data, a.size - 1)],
          exc |-> NoExc]
    ELSE Raise(a, IndexError)

\* Variant of remove_last that gives half of the buffer back once no more
\* than a quarter of it is in use.
ArrayList_remove_last_shrinking(a) ==
    IF a.size = 0
    THEN Return(a, None)
    ELSE IF ListIndexOk(a.data, a.size - 1)
         THEN LET half == a.capacity \div 2
                  shrink == (a.size - 1) * 4 <= a.capacity /\ half >= 1
              IN  [a   |-> [capacity |-> IF shrink THEN half ELSE a.capacity,
                            size |-> a.size - 1,
                            data |-> [i \in 0 .. (IF shrink THEN half
                                                  ELSE ListLen(a.data)) - 1 |->
                                         IF i = ListPos(a.data, a.size - 1)
                                         THEN None ELSE a.data[i]]],
                   ret |-> a.data[ListPos(a.data, a.size - 1)],
                   exc |-> NoExc]
         ELSE Raise(a, IndexError)

ArrayList_remove_last(a) ==
    IF a.size = 0
    THEN Return(a, None)
    ELSE IF ListIndexOk(a.data, a.size - 1)
         THEN [a   |-> [a EXCEPT !.data[ListPos(a.data, a.size - 1)] = None,
                                 !.size = a.size - 1],
               ret |-> a.data[ListPos(a.data, a.size - 1)],
               exc |-> NoExc]
         ELSE Raise(a, IndexError)

\* A reference to a Python list: obj tells which list object it is, items
\* is what the object holds.  "result" is the list to_list builds, "_data"
\* the backing list of the ArrayList.
ListRef(obj, items) == [obj |-> obj, items |-> items]

\* Variant of to_list that hands out the backing list itself.
ArrayList_to_list_backing(a) == Return(a, ListRef("_data", a.data))

\* result = [None] * size, then result[i] = _data[i] for every i < size.
ArrayList_to_list(a) ==
    LET result == [i \in 0 .. a.size - 1 |->
                      IF ListIndexOk(a.data, i)
                      THEN a.data[ListPos(a.data, i)] ELSE None]
    IN  IF \A i \in 0 .. a.size - 1 : ListIndexOk(a.data, i)
        THEN Return(a, ListRef("result", result))
        ELSE Raise(a, IndexError)

---------------------------------------------------------------------------
(* class ListNode, class LinkedList                                        *)
(*                                                                         *)
(* A LinkedList object is [head, tail, size, nodes]: nodes maps the        *)
(* identity of each ListNode still referenced to its [val, next]; head,    *)
(* tail and next hold a node identity or None.                             *)

ListNode(val, next_node) == [val |-> val, next |-> next_node]

\* The identity of a newly allocated node: one no live node has.  Node
\* identities are never observed by the code; the allocator hands out the
\* addresses of a pool in rotation.
PoolSize == MaxEnqueues + MaxUseSize + 1

NewNode(nodes) ==
    IF DOMAIN nodes = {} THEN 1
    ELSE CHOOSE n \in 1 .. PoolSize :
             /\ n \notin DOMAIN nodes
             /\ \E m \in DOMAIN nodes : (m % PoolSize) + 1 = n

LinkedList_init ==
    [head |-> None, tail |-> None, size |-> 0, nodes |-> <<>>]

\* Variant of add_last that links the new node but keeps the old tail.
LinkedList_add_last_stale_tail(l, value) ==
    LET node == NewNode(l.nodes)
        made == [n \in DOMAIN l.nodes \cup {node} |->
                    IF n = node THEN ListNode(value, None) ELSE l.nodes[n]]
    IN  IF l.tail = None
        THEN Return([l EXCEPT !.nodes = made, !.head = node, !.tail = node,
                              !.size = l.size + 1], None)
        ELSE Return([l EXCEPT !.nodes = [made EXCEPT ![l.tail].next = node],
                              !.size = l.size + 1], None)

LinkedList_add_last(l, value) ==
    LET node == NewNode(l.nodes)
        made == [n \in DOMAIN l.nodes \cup {node} |->
                    IF n = node THEN ListNode(value, None) ELSE l.nodes[n]]
    IN  IF l.tail = None
        THEN Return([l EXCEPT !.nodes = made, !.head = node, !.tail = node,
                              !.size = l.size + 1], None)
        ELSE Return([l EXCEPT !.nodes = [made EXCEPT ![l.tail].next = node],
                              !.tail = node, !.size = l.size + 1], None)

\* Variant of remove_first that keeps _tail when the list becomes empty.
LinkedList_remove_first_keeps_tail(l) ==
    IF l.head = None
    THEN Return(l, None)
    ELSE LET value == l.nodes[l.head].val
             head == l.nodes[l.head].next
             kept == IF l.tail = l.head THEN DOMAIN l.nodes
                     ELSE DOMAIN l.nodes \ {l.head}
         IN  Return([l EXCEPT !.head = head, !.size = l.size - 1,
                              !.nodes = [n \in kept |-> l.nodes[n]]], value)

\* Variant of remove_first that resets _tail on every removal.
LinkedList_remove_first_resets_tail(l) ==
    IF l.head = None
    THEN Return(l, None)
    ELSE LET value == l.nodes[l.head].val
             head == l.nodes[l.head].next
             kept == DOMAIN l.nodes \ {l.head}
         IN  Return([l EXCEPT !.head = head, !.tail = None,
                              !.size = l.size - 1,
                              !.nodes = [n \in kept |-> l.nodes[n]]], value)

LinkedList_remove_first(l) ==
    IF l.head = None
    THEN Return(l, None)
    ELSE LET value == l.nodes[l.head].val
             head == l.nodes[l.head].next
             tail == IF head = None THEN None ELSE l.tail
             \* the unlinked node is reclaimed once nothing refers to it
             kept == IF tail = l.head THEN DOMAIN l.nodes
                     ELSE DOMAIN l.nodes \ {l.head}
         IN  Return([l EXCEPT !.head = head, !.tail = tail,
                              !.size = l.size - 1,
                              !.nodes = [n \in kept |-> l.nodes[n]]], value)

LinkedList_size(l) == l.size

---------------------------------------------------------------------------
(* class Stack: _items is an ArrayList                                     *)

Stack_init == ArrayList_init(DefaultCapacity)

Stack_push(s, value) == ArrayList_add(s, value)

Stack_pop(s) == ArrayList_remove_last(s)

\* Variant of peek that takes the top element off, as pop does.
Stack_peek_removing(s) == ArrayList_remove_last(s)

Stack_peek(s) ==
    IF ArrayList_size(s) = 0
    THEN Return(s, None)
    ELSE ArrayList_get(s, ArrayList_size(s) - 1)

\* Variant of is_empty that takes a None from peek for an empty stack.
Stack_is_empty_by_peek(s) == Stack_peek(s).ret = None

Stack_is_empty(s) == ArrayList_size(s) = 0

---------------------------------------------------------------------------
(* class Queue: _items is a LinkedList                                     *)

Queue_init == LinkedList_init

Queue_enqueue(q, value) == LinkedList_add_last(q, value)

Queue_dequeue(q) == LinkedList_remove_first(q)

Queue_is_empty(q) == LinkedList_size(q) = 0

---------------------------------------------------------------------------
(* class MinHeap: _data is an ArrayList                                    *)

MinHeap_init == ArrayList_init(DefaultCapacity)

MinHeap_size(h) == ArrayList_size(h)

MinHeap_peek(h) ==
    IF ArrayList_size(h) = 0
    THEN Return(h, None)
    ELSE ArrayList_get(h, 0)

MinHeap_swap(h, i, j) ==
    With(ArrayList_get(h, i), LAMBDA temp :
        IF temp.exc # NoExc THEN temp ELSE
        With(ArrayList_get(h, j), LAMBDA other :
            IF other.exc # NoExc THEN other ELSE
            With(ArrayList_set(h, i, other.ret), LAMBDA s1 :
                IF s1.exc # NoExc THEN s1
                ELSE ArrayList_set(s1.a, j, temp.ret))))

\* The test  get(i) < get(j)  of _sift_down: its value, or its exception.
MinHeap_before(h, i, j) ==
    With(ArrayList_get(h, i), LAMBDA x :
        IF x.exc # NoExc THEN x ELSE
        With(ArrayList_get(h, j), LAMBDA y :
            IF y.exc # NoExc THEN y
            ELSE IF x.ret = None \/ y.ret = None THEN Raise(h, TypeError)
            ELSE Return(h, x.ret < y.ret)))

\* The test  get(parent) <= get(idx)  of _sift_up: its value, or its
\* exception.
MinHeap_in_order(h, parent, idx) ==
    With(ArrayList_get(h, parent), LAMBDA x :
        IF x.exc # NoExc THEN x ELSE
        With(ArrayList_get(h, idx), LAMBDA y :
            IF y.exc # NoExc THEN y
            ELSE IF x.ret = None \/ y.ret = None THEN Raise(h, TypeError)
            ELSE Return(h, x.ret <= y.ret)))

\* Variant of the pass of _sift_up that swaps and leaves idx where it was.
MinHeap_sift_up_pass_keeps_idx(st) ==
    IF st.done THEN st
    ELSE IF ~(st.idx > 0) THEN [st EXCEPT !.done = TRUE]
    ELSE LET parent == (st.idx - 1) \div 2 IN
         With(MinHeap_in_order(st.a, parent, st.idx), LAMBDA test :
             IF test.exc # NoExc
             THEN [st EXCEPT !.exc = test.exc, !.done = TRUE]
             ELSE IF test.ret THEN [st EXCEPT !.done = TRUE]
             ELSE With(MinHeap_swap(st.a, parent, st.idx), LAMBDA s :
                 IF s.exc # NoExc
                 THEN [st EXCEPT !.a = s.a, !.exc = s.exc, !.done = TRUE]
                 ELSE [st EXCEPT !.a = s.a]))

\* One pass of _sift_up's while loop on the loop state st = [a, idx, exc,
\* done]: the loop test and, when it holds, the loop body.
MinHeap_sift_up_pass(st) ==
    IF st.done THEN st
    ELSE IF ~(st.idx > 0) THEN [st EXCEPT !.done = TRUE]
    ELSE LET parent == (st.idx - 1) \div 2 IN
         With(MinHeap_in_order(st.a, parent, st.idx), LAMBDA test :
             IF test.exc # NoExc
             THEN [st EXCEPT !.exc = test.exc, !.done = TRUE]
             ELSE IF test.ret THEN [st EXCEPT !.done = TRUE]
             ELSE With(MinHeap_swap(st.a, parent, st.idx), LAMBDA s :
                 IF s.exc # NoExc
                 THEN [st EXCEPT !.a = s.a, !.exc = s.exc, !.done = TRUE]
                 ELSE [st EXCEPT !.a = s.a, !.idx = parent]))

\* _sift_up(idx): the loop run for idx + 1 passes, which is as many as the
\* loop can make since every pass that goes on lowers idx by at least one.
\* The result is the final loop state.
MinHeap_sift_up(h, idx) ==
    LET run[k \in 0 .. idx + 1] ==
            IF k = 0
            THEN [a |-> h, idx |-> idx, exc |-> NoExc, done |-> FALSE]
            ELSE With(run[k - 1], MinHeap_sift_up_pass)
    IN  run[IF idx < 0 THEN 0 ELSE idx + 1]

\* Variant of the choice in _sift_down that takes the right child when it is
\* not larger than the smaller of the node and its left child.
MinHeap_sift_down_choice_right_ties(h, idx, size) ==
    LET left == idx * 2 + 1
        right == idx * 2 + 2
    IN  With(IF left < size THEN MinHeap_before(h, left, idx)
             ELSE Return(h, FALSE), LAMBDA t1 :
            IF t1.exc # NoExc THEN t1 ELSE
            With(IF t1.ret THEN left ELSE idx, LAMBDA smallest1 :
                With(IF right < size THEN MinHeap_in_order(h, right, smallest1)
                     ELSE Return(h, FALSE), LAMBDA t2 :
                    IF t2.exc # NoExc THEN t2
                    ELSE Return(h, IF t2.ret THEN right ELSE smallest1))))

\* Variant of the choice in _sift_down that never looks at the right child.
MinHeap_sift_down_choice_left_only(h, idx, size) ==
    LET left == idx * 2 + 1
    IN  With(IF left < size THEN MinHeap_before(h, left, idx)
             ELSE Return(h, FALSE), LAMBDA t1 :
            IF t1.exc # NoExc THEN t1
            ELSE Return(h, IF t1.ret THEN left ELSE idx))

\* The part of one pass of _sift_down's loop that chooses the index to swap
\* with: ret is that index, idx itself when the loop is to break.
MinHeap_sift_down_choice(h, idx, size) ==
    LET left == idx * 2 + 1
        right == idx * 2 + 2
    IN  With(IF left < size THEN MinHeap_before(h, left, idx)
             ELSE Return(h, FALSE), LAMBDA t1 :
            IF t1.exc # NoExc THEN t1 ELSE
            With(IF t1.ret THEN left ELSE idx, LAMBDA smallest1 :
                With(IF right < size THEN MinHeap_before(h, right, smallest1)
                     ELSE Return(h, FALSE), LAMBDA t2 :
                    IF t2.exc # NoExc THEN t2
                    ELSE Return(h, IF t2.ret THEN right ELSE smallest1))))

\* One pass of _sift_down's while loop on the loop state st = [a, idx,
\* exc, done, size].
MinHeap_sift_down_pass(st) ==
    IF st.done THEN st
    ELSE With(MinHeap_sift_down_choice(st.a, st.idx, st.size), LAMBDA smallest :
             IF smallest.exc # NoExc
             THEN [st EXCEPT !.exc = smallest.exc, !.done = TRUE]
             ELSE IF smallest.ret = st.idx THEN [st EXCEPT !.done = TRUE]
             ELSE With(MinHeap_swap(st.a, st.idx, smallest.ret), LAMBDA s :
                 IF s.exc # NoExc
                 THEN [st EXCEPT !.a = s.a, !.exc = s.exc, !.done = TRUE]
                 ELSE [st EXCEPT !.a = s.a, !.idx = smallest.ret]))

\* _sift_down(idx): the loop run for size + 1 passes, which is as many as
\* the loop can make since every pass that goes on moves idx to a child
\* index below size.  The result is the final loop state.
MinHeap_sift_down(h, idx) ==
    LET size == ArrayList_size(h)
        run[k \in 0 .. size + 1] ==
            IF k = 0
            THEN [a |-> h, idx |-> idx, exc |-> NoExc, done |-> FALSE,
                  size |-> size]
            ELSE With(run[k - 1], MinHeap_sift_down_pass)
    IN  run[size + 1]

MinHeap_push(h, value) ==
    With(ArrayList_add(h, value), LAMBDA added :
        IF added.exc # NoExc THEN added ELSE
        With(MinHeap_sift_up(added.a, ArrayList_size(added.a) - 1), LAMBDA up :
            IF up.exc # NoExc THEN Raise(up.a, up.exc)
            ELSE Return(up.a, None)))

\* Variant of pop that moves the last element to the root and does not
\* sift it down.
MinHeap_pop_no_sift(h) ==
    IF ArrayList_size(h) = 0
    THEN Return(h, None)
    ELSE With(ArrayList_get(h, 0), LAMBDA top :
        IF top.exc # NoExc THEN top ELSE
        With(ArrayList_remove_last(h), LAMBDA last_ :
            IF last_.exc # NoExc THEN last_
            ELSE IF ArrayList_size(last_.a) > 0
            THEN With(ArrayList_set(last_.a, 0, last_.ret), LAMBDA placed :
                     IF placed.exc # NoExc THEN placed
                     ELSE Return(placed.a, top.ret))
            ELSE Return(last_.a, top.ret)))

\* pop up to its call of _sift_down: ret is top; sift tells whether
\* _sift_down(0) is to run.
MinHeap_pop_head(h) ==
    IF ArrayList_size(h) = 0
    THEN [a |-> h, ret |-> None, exc |-> NoExc, sift |-> FALSE]
    ELSE With(ArrayList_get(h, 0), LAMBDA top :
        IF top.exc # NoExc
        THEN [a |-> top.a, ret |-> None, exc |-> top.exc, sift |-> FALSE] ELSE
        With(ArrayList_remove_last(h), LAMBDA last_ :
            IF last_.exc # NoExc
            THEN [a |-> last_.a, ret |-> None, exc |-> last_.exc,
                  sift |-> FALSE]
            ELSE IF ArrayList_size(last_.a) > 0
            THEN With(ArrayList_set(last_.a, 0, last_.ret), LAMBDA placed :
                     [a |-> placed.a, ret |-> top.ret, exc |-> placed.exc,
                      sift |-> placed.exc = NoExc])
            ELSE [a |-> last_.a, ret |-> top.ret, exc |-> NoExc,
                  sift |-> FALSE]))

MinHeap_pop(h) ==
    IF ArrayList_size(h) = 0
    THEN Return(h, None)
    ELSE With(ArrayList_get(h, 0), LAMBDA top :
        IF top.exc # NoExc THEN top ELSE
        With(ArrayList_remove_last(h), LAMBDA last_ :
            IF last_.exc # NoExc THEN last_
            ELSE IF ArrayList_size(last_.a) > 0
            THEN With(ArrayList_set(last_.a, 0, last_.ret), LAMBDA placed :
                     IF placed.exc # NoExc THEN placed ELSE
                     With(MinHeap_sift_down(placed.a, 0), LAMBDA down :
                         IF down.exc # NoExc THEN Raise(down.a, down.exc)
                         ELSE Return(down.a, top.ret)))
            ELSE Return(last_.a, top.ret)))

---------------------------------------------------------------------------
(* class MaxHeap: _data is an ArrayList                                    *)

MaxHeap_init == ArrayList_init(DefaultCapacity)

MaxHeap_size(h) == ArrayList_size(h)

\* Variant of peek without the test for an empty heap.
MaxHeap_peek_unchecked(h) == ArrayList_get(h, 0)

MaxHeap_peek(h) ==
    IF ArrayList_size(h) = 0
    THEN Return(h, None)
    ELSE ArrayList_get(h, 0)

MaxHeap_swap(h, i, j) ==
    With(ArrayList_get(h, i), LAMBDA temp :
        IF temp.exc # NoExc THEN temp ELSE
        With(ArrayList_get(h, j), LAMBDA other :
            IF other.exc # NoExc THEN other ELSE
            With(ArrayList_set(h, i, other.ret), LAMBDA s1 :
                IF s1.exc # NoExc THEN s1
                ELSE ArrayList_set(s1.a, j, temp.ret))))

\* The test  get(i) > get(j)  of _sift_down: its value, or its exception.
MaxHeap_before(h, i, j) ==
    With(ArrayList_get(h, i), LAMBDA x :
        IF x.exc # NoExc THEN x ELSE
        With(ArrayList_get(h, j), LAMBDA y :
            IF y.exc # NoExc THEN y
            ELSE IF x.ret = None \/ y.ret = None THEN Raise(h, TypeError)
            ELSE Return(h, x.ret > y.ret)))

\* Variant of the test of _sift_up that holds only when the parent is
\* strictly larger, so that an element equal to its parent moves up.
MaxHeap_in_order_strict(h, parent, idx) ==
    With(ArrayList_get(h, parent), LAMBDA x :
        IF x.exc # NoExc THEN x ELSE
        With(ArrayList_get(h, idx), LAMBDA y :
            IF y.exc # NoExc THEN y
            ELSE IF x.ret = None \/ y.ret = None THEN Raise(h, TypeError)
            ELSE Return(h, x.ret > y.ret)))

\* The test  get(parent) >= get(idx)  of _sift_up: its value, or its
\* exception.
MaxHeap_in_order(h, parent, idx) ==
    With(ArrayList_get(h, parent), LAMBDA x :
        IF x.exc # NoExc THEN x ELSE
        With(ArrayList_get(h, idx), LAMBDA y :
            IF y.exc # NoExc THEN y
            ELSE IF x.ret = None \/ y.ret = None THEN Raise(h, TypeError)
            ELSE Return(h, x.ret >= y.ret)))

\* One pass of _sift_up's while loop on the loop state st = [a, idx, exc,
\* done]: the loop test and, when it holds, the loop body.
MaxHeap_sift_up_pass(st) ==
    IF st.done THEN st
    ELSE IF ~(st.idx > 0) THEN [st EXCEPT !.done = TRUE]
    ELSE LET parent == (st.idx - 1) \div 2 IN
         With(MaxHeap_in_order(st.a, parent, st.idx), LAMBDA test :
             IF test.exc # NoExc
             THEN [st EXCEPT !.exc = test.exc, !.done = TRUE]
             ELSE IF test.ret THEN [st EXCEPT !.done = TRUE]
             ELSE With(MaxHeap_swap(st.a, parent, st.idx), LAMBDA s :
                 IF s.exc # NoExc
                 THEN [st EXCEPT !.a = s.a, !.exc = s.exc, !.done = TRUE]
                 ELSE [st EXCEPT !.a = s.a, !.idx = parent]))

\* Variant of _sift_up with an if in place of the while: one pass only.
MaxHeap_sift_up_once(h, idx) ==
    With([a |-> h, idx |-> idx, exc |-> NoExc, done |-> FALSE],
         MaxHeap_sift_up_pass)

\* _sift_up(idx): the loop run for idx + 1 passes, which is as many as the
\* loop can make since every pass that goes on lowers idx by at least one.
\* The result is the final loop state.
MaxHeap_sift_up(h, idx) ==
    LET run[k \in 0 .. idx + 1] ==
            IF k = 0
            THEN [a |-> h, idx |-> idx, exc |-> NoExc, done |-> FALSE]
            ELSE With(run[k - 1], MaxHeap_sift_up_pass)
    IN  run[IF idx < 0 THEN 0 ELSE idx + 1]

\* Variant of the choice in _sift_down that reads the right child without
\* testing that its index is below size.
MaxHeap_sift_down_choice_unguarded(h, idx, size) ==
    LET left == idx * 2 + 1
        right == idx * 2 + 2
    IN  With(IF left < size THEN MaxHeap_before(h, left, idx)
             ELSE Return(h, FALSE), LAMBDA t1 :
            IF t1.exc # NoExc THEN t1 ELSE
            With(IF t1.ret THEN left ELSE idx, LAMBDA largest1 :
                With(MaxHeap_before(h, right, largest1), LAMBDA t2 :
                    IF t2.exc # NoExc THEN t2
                    ELSE Return(h, IF t2.ret THEN right ELSE largest1))))

\* The part of one pass of _sift_down's loop that chooses the index to swap
\* with: ret is that index, idx itself when the loop is to break.
MaxHeap_sift_down_choice(h, idx, size) ==
    LET left == idx * 2 + 1
        right == idx * 2 + 2
    IN  With(IF left < size THEN MaxHeap_before(h, left, idx)
             ELSE Return(h, FALSE), LAMBDA t1 :
            IF t1.exc # NoExc THEN t1 ELSE
            With(IF t1.ret THEN left ELSE idx, LAMBDA largest1 :
                With(IF right < size THEN MaxHeap_before(h, right, largest1)
                     ELSE Return(h, FALSE), LAMBDA t2 :
                    IF t2.exc # NoExc THEN t2
                    ELSE Return(h, IF t2.ret THEN right ELSE largest1))))

\* One pass of _sift_down's while loop on the loop state st = [a, idx,
\* exc, done, size].
MaxHeap_sift_down_pass(st) ==
    IF st.done THEN st
    ELSE With(MaxHeap_sift_down_choice(st.a, st.idx, st.size), LAMBDA largest :
             IF largest.exc # NoExc
             THEN [st EXCEPT !.exc = largest.exc, !.done = TRUE]
             ELSE IF largest.ret = st.idx THEN [st EXCEPT !.done = TRUE]
             ELSE With(MaxHeap_swap(st.a, st.idx, largest.ret), LAMBDA s :
                 IF s.exc # NoExc
                 THEN [st EXCEPT !.a = s.a, !.exc = s.exc, !.done = TRUE]
                 ELSE [st EXCEPT !.a = s.a, !.idx = largest.ret]))

\* _sift_down(idx): the loop run for size + 1 passes, which is as many as
\* the loop can make since every pass that goes on moves idx to a child
\* index below size.  The result is the final loop state.
MaxHeap_sift_down(h, idx) ==
    LET size == ArrayList_size(h)
        run[k \in 0 .. size + 1] ==
            IF k = 0
            THEN [a |-> h, idx |-> idx, exc |-> NoExc, done |-> FALSE,
                  size |-> size]
            ELSE With(run[k - 1], MaxHeap_sift_down_pass)
    IN  run[size + 1]

MaxHeap_push(h, value) ==
    With(ArrayList_add(h, value), LAMBDA added :
        IF added.exc # NoExc THEN added ELSE
        With(MaxHeap_sift_up(added.a, ArrayList_size(added.a) - 1), LAMBDA up :
            IF up.exc # NoExc THEN Raise(up.a, up.exc)
            ELSE Return(up.a, None)))

\* Variant of pop that takes the last element off without putting it at
\* the root.
MaxHeap_pop_drops_last(h) ==
    IF ArrayList_size(h) = 0
    THEN Return(h, None)
    ELSE With(ArrayList_get(h, 0), LAMBDA top :
        IF top.exc # NoExc THEN top ELSE
        With(ArrayList_remove_last(h), LAMBDA last_ :
            IF last_.exc # NoExc THEN last_
            ELSE Return(last_.a, top.ret)))

\* pop up to its call of _sift_down: ret is top; sift tells whether
\* _sift_down(0) is to run.
MaxHeap_pop_head(h) ==
    IF ArrayList_size(h) = 0
    THEN [a |-> h, ret |-> None, exc |-> NoExc, sift |-> FALSE]
    ELSE With(ArrayList_get(h, 0), LAMBDA top :
        IF top.exc # NoExc
        THEN [a |-> top.a, ret |-> None, exc |-> top.exc, sift |-> FALSE] ELSE
        With(ArrayList_remove_last(h), LAMBDA last_ :
            IF last_.exc # NoExc
            THEN [a |-> last_.a, ret |-> None, exc |-> last_.exc,
                  sift |-> FALSE]
            ELSE IF ArrayList_size(last_.a) > 0
            THEN With(ArrayList_set(last_.a, 0, last_.ret), LAMBDA placed :
                     [a |-> placed.a, ret |-> top.ret, exc |-> placed.exc,
                      sift |-> placed.exc = NoExc])
            ELSE [a |-> last_.a, ret |-> top.ret, exc |-> NoExc,
                  sift |-> FALSE]))

MaxHeap_pop(h) ==
    IF ArrayList_size(h) = 0
    THEN Return(h, None)
    ELSE With(ArrayList_get(h, 0), LAMBDA top :
        IF top.exc # NoExc THEN top ELSE
        With(ArrayList_remove_last(h), LAMBDA last_ :
            IF last_.exc # NoExc THEN last_
            ELSE IF ArrayList_size(last_.a) > 0
            THEN With(ArrayList_set(last_.a, 0, last_.ret), LAMBDA placed :
                     IF placed.exc # NoExc THEN placed ELSE
                     With(MaxHeap_sift_down(placed.a, 0), LAMBDA down :
                         IF down.exc # NoExc THEN Raise(down.a, down.exc)
                         ELSE Return(down.a, top.ret)))
            ELSE Return(last_.a, top.ret)))

---------------------------------------------------------------------------
(* Python strings of _tools/anki-generator/cloze_generator.py.             *)
(*                                                                         *)
(* A string is the sequence of its tokens: the words of a candidate's      *)
(* text, and the marks and fixed phrases the generator puts around them.   *)
(* No word of the candidates tried lies inside another word, so a search   *)
(* for a substring is a search for a run of tokens.                        *)

\* str.lower() of one word: the capitalised words of the candidates tried.
Folded == ("Hooks" :> "hooks") @@ ("State" :> "state")

\* text.lower()
Lower(text) ==
    [k \in DOMAIN text |->
        IF text[k] \in DOMAIN Folded THEN Folded[text[k]] ELSE text[k]]

\* The positions at which pat occurs in text.
Occurs(text, pat) ==
    {p \in 1 .. Len(text) - Len(pat) + 1 :
        SubSeq(text, p, p + Len(pat) - 1) = pat}

\* The leftmost position of a non-empty set of positions.
Leftmost(S) == CHOOSE p \in S : \A q \in S : p <= q

\* text.replace(old, new) for a non-empty old: every occurrence, from the
\* left, without overlap.
StrReplace(text, old, new) ==
    LET out[k \in 1 .. Len(text) + 1] ==
            IF k > Len(text) THEN <<>>
            ELSE IF k \in Occurs(text, old)
                 THEN new \o out[k + Len(old)]
                 ELSE <<text[k]>> \o out[k + 1]
    IN  out[1]

\* text.split(sep, 1): the list of one or two parts.
StrSplitOnce(text, sep) ==
    IF Occurs(text, sep) = {}
    THEN <<text>>
    ELSE With(Leftmost(Occurs(text, sep)), LAMBDA p :
             <<SubSeq(text, 1, p - 1),
               SubSeq(text, p + Len(sep), Len(text))>>)

\* The opening mark {{cN:: of a cloze deletion, and the closing mark }}.
ClozeOpen(cloze_num) == "{{c" \o ToString(cloze_num) \o "::"

ClozeClose == "}}"

\* The largest cloze number a text of the candidates tried may carry.
MaxClozeNum == 2

ClozeMarks == {ClozeOpen(n) : n \in 1 .. MaxClozeNum} \cup {ClozeClose}

---------------------------------------------------------------------------
(* class ClozeGenerator.  A candidate is [full_text, cloze_text,           *)
(* cloze_type]; a card is [id, front, back, card_type].  The tags, the     *)
(* source file and the source question of a card are copied from the       *)
(* arguments and never read, and are left out.  An Optional[AnkiCard] is   *)
(* the sequence of no card or one card.                                    *)

TERM == "term"

DEFINITION == "definition"

CODE_PATTERN == "code_pattern"

KEY_CONCEPT == "key_concept"

CLOZE == "cloze"

BASIC == "basic"

\* The source_file argument of generate_cards.
SourceFile == "test.md"

AnkiCard(id, front, back, card_type) ==
    [id |-> id, front |-> front, back |-> back, card_type |-> card_type]

\* _escape_cloze_text: the cloze marks are taken out (the candidates tried
\* have no blank at either end for strip() to take off).
ClozeGenerator_escape_cloze_text(text) ==
    SelectSeq(text, LAMBDA t : t \notin ClozeMarks)

\* _apply_cloze_deletion: the leftmost match of cloze_text in text, upper
\* and lower case taken as equal, is put between cloze marks; no string
\* (None) when there is no match.
ClozeGenerator_apply_cloze_deletion(text, cloze_text, cloze_num) ==
    IF Occurs(Lower(text), Lower(cloze_text)) = {}
    THEN <<>>
    ELSE With(Leftmost(Occurs(Lower(text), Lower(cloze_text))), LAMBDA p :
             <<SubSeq(text, 1, p - 1)
               \o <<ClozeOpen(cloze_num)>>
               \o SubSeq(text, p, p + Len(cloze_text) - 1)
               \o <<ClozeClose>>
               \o SubSeq(text, p + Len(cloze_text), Len(text))>>)

\* _generate_card_id: the first 16 hex digits of the MD5 digest of
\* "source:content".  The digests of different strings are taken to differ;
\* the identifier is the string that is digested.
ClozeGenerator_generate_card_id(content, source) ==
    <<source \o ":">> \o content

ClozeGenerator_create_cloze_card(candidate) ==
    With(ClozeGenerator_escape_cloze_text(candidate.cloze_text),
         LAMBDA cloze_text :
        IF Occurs(Lower(candidate.full_text), Lower(cloze_text)) = {}
        THEN <<>>
        ELSE With(ClozeGenerator_apply_cloze_deletion(
                      candidate.full_text, cloze_text, 1), LAMBDA made :
            IF made = <<>> \/ made[1] = <<>> THEN <<>>
            ELSE <<AnkiCard(
                     ClozeGenerator_generate_card_id(made[1], SourceFile),
                     made[1], candidate.cloze_text, CLOZE)>>))

ClozeGenerator_create_reverse_card(candidate) ==
    IF candidate.cloze_type \notin {TERM, DEFINITION}
    THEN <<>>
    ELSE With(IF candidate.cloze_type = TERM
              THEN [front |-> <<"What concept is described by:">>
                              \o StrReplace(candidate.full_text,
                                            candidate.cloze_text, <<"___">>),
                    back  |-> candidate.cloze_text]
              ELSE [front |-> <<"Define:">> \o candidate.cloze_text,
                    back  |-> candidate.full_text],
              LAMBDA c :
             <<AnkiCard(ClozeGenerator_generate_card_id(
                            c.front, SourceFile \o "_reverse"),
                        c.front, c.back, BASIC)>>)

\* One turn of the loop of _create_multi_cloze_card:
\*   text = self._apply_cloze_deletion(text, cloze_text, i) or text
ClozeGenerator_multi_cloze_turn(text, candidate, i) ==
    With(ClozeGenerator_apply_cloze_deletion(
             text, ClozeGenerator_escape_cloze_text(candidate.cloze_text), i),
         LAMBDA made :
        IF made = <<>> \/ made[1] = <<>> THEN text ELSE made[1])

\* _create_multi_cloze_card([c1, c2]); the back is ", ".join of the two
\* cloze texts.
ClozeGenerator_create_multi_cloze_card(c1, c2) ==
    With(ClozeGenerator_multi_cloze_turn(
             ClozeGenerator_multi_cloze_turn(c1.full_text, c1, 1), c2, 2),
         LAMBDA text :
        <<AnkiCard(ClozeGenerator_generate_card_id(
                       text, SourceFile \o "_multi"),
                   text, c1.cloze_text \o <<",">> \o c2.cloze_text, CLOZE)>>)

ClozeGenerator_create_fill_blank_card(candidate) ==
    With(StrReplace(candidate.full_text, candidate.cloze_text, <<"_____">>),
         LAMBDA blanked :
        IF blanked = candidate.full_text THEN <<>>
        ELSE With(<<"Fill in the blank:">> \o blanked, LAMBDA front :
            <<AnkiCard(ClozeGenerator_generate_card_id(
                           front, SourceFile \o "_fill"),
                       front, candidate.cloze_text, BASIC)>>))

\* The phrases "What does" and "do?" stand for the phrases of the code that
\* end and begin with the backquote put around the term.
ClozeGenerator_create_qa_card(candidate) ==
    IF candidate.cloze_type \notin {TERM, CODE_PATTERN}
    THEN <<>>
    ELSE With(IF candidate.cloze_type = TERM
              THEN <<"What is">> \o candidate.cloze_text \o <<"?">>
              ELSE <<"What does">> \o candidate.cloze_text \o <<"do?">>,
              LAMBDA front :
             <<AnkiCard(ClozeGenerator_generate_card_id(
                            front, SourceFile \o "_qa"),
                        front, candidate.full_text, BASIC)>>)

ClozeGenerator_create_true_false_card(candidate) ==
    With(<<"True or False: The following statement contains '">>
         \o candidate.cloze_text \o <<"':">> \o candidate.full_text,
         LAMBDA front :
        <<AnkiCard(ClozeGenerator_generate_card_id(
                       front, SourceFile \o "_tf"),
                   front, <<"True">>, BASIC)>>)

ClozeGenerator_create_complete_sentence_card(candidate) ==
    With(StrSplitOnce(candidate.full_text, candidate.cloze_text),
         LAMBDA parts :
        IF Len(parts) # 2 THEN <<>>
        ELSE With(<<"Complete:">> \o parts[1] \o <<"...">>, LAMBDA front :
            <<AnkiCard(ClozeGenerator_generate_card_id(
                           front, SourceFile \o "_complete"),
                       front, candidate.cloze_text \o parts[2], BASIC)>>))

\* Variant of the statement below that appends the card whatever fronts were
\* seen.
ClozeGenerator_keep_if_new_unchecked(acc, card) ==
    IF card # <<>>
    THEN [list |-> Append(acc.list, card[1]),
          seen |-> acc.seen \cup {card[1].front}]
    ELSE acc

\* The statement that follows every card construction in generate_cards and
\* _generate_additional_cards, on the list being built and seen_fronts:
\*   if card and card.front not in seen_fronts:
\*       list.append(card); seen_fronts.add(card.front)
ClozeGenerator_keep_if_new(acc, card) ==
    IF card # <<>> /\ card[1].front \notin acc.seen
    THEN [list |-> Append(acc.list, card[1]),
          seen |-> acc.seen \cup {card[1].front}]
    ELSE acc

\* The configuration: min_cards and generate_reverse_cards.
GeneratorConfig(min_cards, generate_reverse_cards) ==
    [min_cards |-> min_cards,
     generate_reverse_cards |-> generate_reverse_cards]

\* generate_cards has been called with candidates and config and is about
\* to enter its loop over the candidates.
Called(candidates, config) ==
    [candidates |-> candidates, config |-> config, cards |-> <<>>,
     seen_fronts |-> {}, additional |-> <<>>, needed |-> 0,
     pc |-> "candidates", i |-> 0]

\* No call of generate_cards has been made.
NotCalled ==
    [Called(<<>>, GeneratorConfig(0, TRUE)) EXCEPT !.pc = "idle"]

---------------------------------------------------------------------------
(* Calls in progress.                                                      *)

\* No heap method is in progress.
NoFrame ==
    [obj |-> "-", method |-> "-", pc |-> "idle", value |-> None,
     idx |-> 0, size |-> 0, exc |-> NoExc, pre |-> MinHeap_init]

\* No function of solutions.py is in progress.
NotRun == [fn |-> "-", pc |-> "idle"]

---------------------------------------------------------------------------
(* Callers.  Each specification below is one kind of caller of the         *)
(* library; the objects it does not use stay as constructed.               *)

Call(op, args, pre, r) ==
    [op |-> op, args |-> args, pre |-> pre, ret |-> r.ret, exc |-> r.exc]

NoCall == [op |-> "new", args |-> <<>>, pre |-> 0, ret |-> None, exc |-> NoExc]

arrVars == <<arrArg, arr, arrAdds, arrGrowths, snap>>

stackVars == <<stack, stackIn, stackOut, stackRef>>

queueVars == <<queue, queueIn, queueOut, queueRef>>

heapVars == <<minHeap, maxHeap, minBag, maxBag, sortIn, minOut, maxOut>>

runVars == <<frame, sol>>

notArr == <<stackVars, queueVars, heapVars, filled, gen, runVars>>

notStack == <<gen, runVars, arrVars, queueVars, heapVars, filled>>

notQueue == <<gen, runVars, arrVars, stackVars, heapVars, filled>>

minVars == <<minHeap, minBag, minOut>>

maxVars == <<maxHeap, maxBag, maxOut>>

\* The caller holds no list.
NoList == ListRef("none", <<>>)

\* The list a caller holds, after a call took the ArrayList from a to b: a
\* reference to the backing list shows the writes of the call, until _grow
\* gives the ArrayList another backing list; any other list is untouched.
Held(ref, a, b) ==
    IF ref.obj # "_data" THEN ref
    ELSE IF b.capacity # a.capacity THEN ListRef("old _data", ref.items)
    ELSE ListRef("_data", b.data)

\* A sequence without its last element, and without its first; the empty
\* sequence has none to lose.
Front(s) == IF s = <<>> THEN <<>> ELSE SubSeq(s, 1, Len(s) - 1)

Rest(s) == IF s = <<>> THEN <<>> ELSE Tail(s)

\* The capacity arguments tried: negative, zero, positive, and the default.
CapArgs == (-1 .. MaxCapArg) \cup {DefaultCapacity}

ArrNew(c) ==
    /\ arrArg = c
    /\ arr = ArrayList_init(c)
    /\ arrAdds = <<>>
    /\ arrGrowths = 0
    /\ snap = NoList

StackNew ==
    /\ stack = Stack_init
    /\ stackIn = <<>>
    /\ stackOut = <<>>
    /\ stackRef = <<>>

QueueNew ==
    /\ queue = Queue_init
    /\ queueIn = <<>>
    /\ queueOut = <<>>
    /\ queueRef = <<>>

HeapNew ==
    /\ minHeap = MinHeap_init
    /\ maxHeap = MaxHeap_init
    /\ minBag = EmptyBag
    /\ maxBag = EmptyBag
    /\ sortIn = <<>>
    /\ minOut = <<>>
    /\ maxOut = <<>>

---------------------------------------------------------------------------
(* SpecArr: a caller of one ArrayList, any constructor argument, any       *)
(* sequence of add / get / set / remove_last.                              *)

\* The values stored: the ArrayList never inspects them, two distinct ones
\* tell every slot from its neighbours.
ArrValues == {1, 2}

\* The indices a caller tries: -1, every slot of the buffer, and one past it.
ArrIndices == -1 .. arr.capacity

\* How often _grow runs inside one add call.
GrowsIn(a) == IF a.size >= a.capacity THEN 1 ELSE 0

ArrAdd(v) ==
    /\ arr.size < MaxArrSize
    /\ \E r \in {ArrayList_add(arr, v)} :
           /\ arr' = r.a
           /\ last' = Call("ArrayList.add", <<v>>, arr.size, r)
           /\ snap' = Held(snap, arr, r.a)
    /\ arrGrowths' = arrGrowths + GrowsIn(arr)
    /\ UNCHANGED <<arrArg, arrAdds, notArr>>

ArrGet(i) ==
    /\ \E r \in {ArrayList_get(arr, i)} :
           /\ arr' = r.a
           /\ last' = Call("ArrayList.get", <<i>>, arr.size, r)
           /\ snap' = Held(snap, arr, r.a)
    /\ UNCHANGED <<arrArg, arrAdds, arrGrowths, notArr>>

ArrSet(i, v) ==
    /\ \E r \in {ArrayList_set(arr, i, v)} :
           /\ arr' = r.a
           /\ last' = Call("ArrayList.set", <<i, v>>, arr.size, r)
           /\ snap' = Held(snap, arr, r.a)
    /\ UNCHANGED <<arrArg, arrAdds, arrGrowths, notArr>>

ArrRemoveLast ==
    /\ \E r \in {ArrayList_remove_last(arr)} :
           /\ arr' = r.a
           /\ last' = Call("ArrayList.remove_last", <<>>, arr.size, r)
           /\ snap' = Held(snap, arr, r.a)
    /\ UNCHANGED <<arrArg, arrAdds, arrGrowths, notArr>>

ArrInit ==
    /\ \E c \in CapArgs : ArrNew(c)
    /\ StackNew /\ QueueNew /\ HeapNew
    /\ filled = {}
    /\ gen = NotCalled
    /\ frame = NoFrame
    /\ sol = NotRun
    /\ last = NoCall

ArrNext ==
    \/ \E v \in ArrValues : ArrAdd(v)
    \/ \E i \in ArrIndices : ArrGet(i)
    \/ \E i \in ArrIndices, v \in ArrValues : ArrSet(i, v)
    \/ ArrRemoveLast

SpecArr == ArrInit /\ [][ArrNext]_vars

\* C7: in every reachable ArrayList state get(index) raises the
\* out-of-bounds error for every index < 0 and every index >= size(), also
\* when the index is below the capacity and the slot exists, and returns the
\* stored element for every 0 <= index < size().
C7_GetBounds ==
    \A i \in ArrIndices :
        LET r == ArrayList_get(arr, i)
        IN  IF i < 0 \/ i >= ArrayList_size(arr)
            THEN r.exc = IndexError
            ELSE r.exc = NoExc /\ r.ret = arr.data[i]

\* C7 witness: remove_last has just vacated a slot that still exists in the
\* buffer, and get of that slot (index size()) and get(-1) both raise.
C7_Witness ==
    /\ last.op = "ArrayList.remove_last"
    /\ last.pre >= 1
    /\ ArrayList_size(arr) < arr.capacity
    /\ ArrayList_get(arr, ArrayList_size(arr)).exc = IndexError
    /\ ArrayList_get(arr, -1).exc = IndexError

\* C9: a set call with index < 0 or index >= size() raises the out-of-bounds
\* error and leaves size, capacity and every slot unchanged; a set call with
\* 0 <= index < size() returns normally and changes slot index and nothing
\* else.
C9_SetContract ==
    [][last'.op = "ArrayList.set" =>
          LET i == last'.args[1]
              v == last'.args[2]
          IN  IF i < 0 \/ i >= arr.size
              THEN last'.exc = IndexError /\ arr' = arr
              ELSE /\ last'.exc = NoExc
                   /\ arr'.size = arr.size
                   /\ arr'.capacity = arr.capacity
                   /\ DOMAIN arr'.data = DOMAIN arr.data
                   /\ \A j \in DOMAIN arr.data :
                          arr'.data[j] = IF j = i THEN v ELSE arr.data[j]]_vars

\* C9 witness: a set call on an index in [size, capacity) has raised.
C9_Witness ==
    /\ last.op = "ArrayList.set"
    /\ last.exc = IndexError
    /\ last.args[1] >= arr.size
    /\ last.args[1] < arr.capacity

\* C10: in every reachable ArrayList state, for any constructor argument and
\* any calls of add / set / remove_last, capacity >= 1, 0 <= size <= capacity
\* and the backing buffer has exactly capacity slots.
C10_CapacityInvariant ==
    /\ arr.capacity >= 1
    /\ 0 <= arr.size
    /\ arr.size <= arr.capacity
    /\ DOMAIN arr.data = 0 .. arr.capacity - 1

\* C10 witness: an array constructed with an argument below 1 has grown
\* twice and a remove_last has then taken an element from it.
C10_Witness ==
    /\ arrArg < 1
    /\ arrGrowths >= 2
    /\ last.op = "ArrayList.remove_last"
    /\ last.pre = arr.size + 1

\* C11: an add call changes the capacity exactly when size = capacity
\* before the call; the new capacity is then twice the old and every
\* element keeps its index and value.  When size < capacity the call leaves
\* the capacity and every slot but slot size unchanged.  In both cases the
\* value is written at index size and size goes up by one.
C11_AddGrowth ==
    [][last'.op = "ArrayList.add" =>
          /\ last'.exc = NoExc
          /\ (arr'.capacity # arr.capacity) <=> (arr.size = arr.capacity)
          /\ arr.size = arr.capacity => arr'.capacity = 2 * arr.capacity
          /\ DOMAIN arr'.data = 0 .. arr'.capacity - 1
          /\ \A i \in 0 .. arr.size - 1 : arr'.data[i] = arr.data[i]
          /\ arr.size < arr.capacity =>
                 /\ arr'.capacity = arr.capacity
                 /\ \A i \in DOMAIN arr.data \ {arr.size} :
                        arr'.data[i] = arr.data[i]
          /\ arr'.data[arr.size] = last'.args[1]
          /\ arr'.size = arr.size + 1]_vars

\* C11 witness: an add call found a full buffer of at least two elements
\* and doubled it.
C11_Witness ==
    /\ last.op = "ArrayList.add"
    /\ last.pre >= 2
    /\ arr.size = last.pre + 1
    /\ arr.capacity = 2 * last.pre
    /\ arrGrowths >= 1

\* C12: a new ArrayList has size 0 and capacity 1 when the requested
\* capacity is 0 or negative, capacity c when c >= 1 is requested, and the
\* default capacity, which is at least 1, when none is requested; every add
\* call on it returns normally and stores its value.
C12_Constructor ==
    /\ DefaultCapacity >= 1
    /\ last.op = "new" =>
           /\ arr.size = 0
           /\ arr.capacity = IF arrArg <= 0 THEN 1 ELSE arrArg
           /\ arr.data = NoneList(arr.capacity)
    /\ last.op = "ArrayList.add" =>
           /\ last.exc = NoExc
           /\ arr.size = last.pre + 1
           /\ ArrayList_get(arr, last.pre) = Return(arr, last.args[1])

\* C12 witness: an array requested with capacity 0 or less has taken its
\* second add.
C12_Witness ==
    /\ arrArg <= 0
    /\ last.op = "ArrayList.add"
    /\ last.pre = 1
    /\ last.exc = NoExc

---------------------------------------------------------------------------
(* SpecArrGrow: a caller that constructs an ArrayList and only adds.       *)

GrowValues == {10, 20, 30, 40, 50}

GrowAdd(v) ==
    /\ Len(arrAdds) < MaxAdds
    /\ \E r \in {ArrayList_add(arr, v)} :
           /\ arr' = r.a
           /\ last' = Call("ArrayList.add", <<v>>, arr.size, r)
           /\ snap' = Held(snap, arr, r.a)
    /\ arrAdds' = Append(arrAdds, v)
    /\ arrGrowths' = arrGrowths + GrowsIn(arr)
    /\ UNCHANGED <<arrArg, notArr>>

ArrGrowNext == \E v \in GrowValues : GrowAdd(v)

SpecArrGrow == ArrInit /\ [][ArrGrowNext]_vars

\* C6: after N add calls on a new ArrayList of any initial capacity every
\* add has returned normally, size() = N and get(i) returns the i-th added
\* value for every 0 <= i < N, however often the buffer grew; constructed
\* with capacity 1 and given 10, 20, 30, 40, 50 the array has size 5, get(4)
\* is 50 and the buffer has grown at least once.
C6_AddsKept ==
    /\ last.exc = NoExc
    /\ ArrayList_size(arr) = Len(arrAdds)
    /\ \A i \in 0 .. Len(arrAdds) - 1 :
          ArrayList_get(arr, i) = Return(arr, arrAdds[i + 1])
    /\ arrArg = 1 /\ arrAdds = <<10, 20, 30, 40, 50>> =>
          /\ ArrayList_size(arr) = 5
          /\ ArrayList_get(arr, 4).ret = 50
          /\ arrGrowths >= 1

\* C6 witness: the scenario capacity 1, adds of 10, 20, 30, 40, 50 has run
\* and the buffer has grown.
C6_Witness ==
    /\ arrArg = 1
    /\ arrAdds = <<10, 20, 30, 40, 50>>
    /\ last.op = "ArrayList.add"
    /\ arrGrowths >= 1
    /\ arr.capacity > 1

---------------------------------------------------------------------------
(* SpecArrSnap: a caller of one small ArrayList that takes to_list()       *)
(* snapshots and goes on to add, set and remove_last while it holds the    *)
(* latest one.                                                             *)

ArrToList ==
    /\ \E r \in {ArrayList_to_list(arr)} :
           /\ arr' = r.a
           /\ last' = Call("ArrayList.to_list", <<>>, arr.size, r)
           /\ snap' = r.ret
    /\ UNCHANGED <<arrArg, arrAdds, arrGrowths, notArr>>

SnapAdd(v) == arr.size < MaxSnapSize /\ ArrAdd(v)

ArrSnapNext ==
    \/ \E v \in ArrValues : SnapAdd(v)
    \/ \E i \in ArrIndices, v \in ArrValues : ArrSet(i, v)
    \/ ArrRemoveLast
    \/ ArrToList

SpecArrSnap == ArrInit /\ [][ArrSnapNext]_vars

Writes == {"ArrayList.add", "ArrayList.set", "ArrayList.remove_last"}

\* C17: to_list() returns a list of length size() whose i-th element is
\* get(i), so no slot of the unused capacity is in it, and leaves the array
\* as it was; the list is a copy of its own: a later add, set or
\* remove_last does not change a list returned before.
C17_ToListSnapshot ==
    [][/\ last'.op = "ArrayList.to_list" =>
              /\ last'.exc = NoExc
              /\ arr' = arr
              /\ DOMAIN last'.ret.items = 0 .. ArrayList_size(arr) - 1
              /\ \A i \in 0 .. ArrayList_size(arr) - 1 :
                     ArrayList_get(arr, i) = Return(arr, last'.ret.items[i])
       /\ last'.op \in Writes /\ snap # NoList =>
              snap'.items = snap.items]_vars

\* C17 witness: the caller holds a list of at least two elements returned
\* by to_list(); set has since replaced an element of the array, which has
\* spare capacity, and the list still has the old one.
C17_Witness ==
    /\ snap # NoList
    /\ ListLen(snap.items) >= 2
    /\ last.op = "ArrayList.set"
    /\ last.exc = NoExc
    /\ snap.items[last.args[1]] # arr.data[last.args[1]]
    /\ ArrayList_size(arr) < arr.capacity

---------------------------------------------------------------------------
(* SpecStack: a caller that pushes v1 .. vn on a new Stack and then pops,  *)
(* once more than it pushed.                                               *)

StackValues == 1 .. MaxStackVal

LifoPush(v) ==
    /\ stackOut = <<>>
    /\ Len(stackIn) < MaxPushes
    /\ \E r \in {Stack_push(stack, v)} :
           /\ stack' = r.a
           /\ last' = Call("Stack.push", <<v>>, ArrayList_size(stack), r)
    /\ stackIn' = Append(stackIn, v)
    /\ stackRef' = Append(stackRef, v)
    /\ UNCHANGED <<stackOut, notStack>>

LifoPop ==
    /\ Len(stackOut) <= Len(stackIn)
    /\ \E r \in {Stack_pop(stack)} :
           /\ stack' = r.a
           /\ last' = Call("Stack.pop", <<>>, ArrayList_size(stack), r)
           /\ stackOut' = Append(stackOut, r.ret)
    /\ stackRef' = Front(stackRef)
    /\ UNCHANGED <<stackIn, notStack>>

NewInit ==
    /\ ArrNew(DefaultCapacity)
    /\ StackNew /\ QueueNew /\ HeapNew
    /\ filled = {}
    /\ gen = NotCalled
    /\ frame = NoFrame
    /\ sol = NotRun
    /\ last = NoCall

StackNext ==
    \/ \E v \in StackValues : LifoPush(v)
    \/ LifoPop

SpecStack == NewInit /\ [][StackNext]_vars

\* C4: after v1 .. vn are pushed in order on a new Stack, the k-th pop
\* returns v(n-k+1) for every k <= n, so n pops yield vn, ..., v1, and no
\* call raises; n may exceed the default capacity 4.
C4_StackLifo ==
    /\ last.exc = NoExc
    /\ \A k \in 1 .. Len(stackOut) :
          k <= Len(stackIn) => stackOut[k] = stackIn[Len(stackIn) - k + 1]

\* C4 witness: more values than the default capacity were pushed, the
\* buffer grew, and all of them have been popped.
C4_Witness ==
    /\ Len(stackIn) > DefaultCapacity
    /\ stack.capacity > DefaultCapacity
    /\ Len(stackOut) = Len(stackIn)
    /\ last.op = "Stack.pop"
    /\ \E i, j \in 1 .. Len(stackIn) : stackIn[i] # stackIn[j]

---------------------------------------------------------------------------
(* SpecQueue: a caller that enqueues v1 .. vn on a new Queue and then      *)
(* dequeues, once more than it enqueued.  The values are opaque to the     *)
(* queue; the strings "a", "b", "c" of the documented scenario are the     *)
(* integers 1, 2, 3 here.                                                  *)

QueueValues == 1 .. MaxQueueVal

FifoEnqueue(v) ==
    /\ queueOut = <<>>
    /\ Len(queueIn) < MaxEnqueues
    /\ \E r \in {Queue_enqueue(queue, v)} :
           /\ queue' = r.a
           /\ last' = Call("Queue.enqueue", <<v>>, LinkedList_size(queue), r)
    /\ queueIn' = Append(queueIn, v)
    /\ queueRef' = Append(queueRef, v)
    /\ UNCHANGED <<queueOut, notQueue>>

FifoDequeue ==
    /\ Len(queueOut) <= Len(queueIn)
    /\ \E r \in {Queue_dequeue(queue)} :
           /\ queue' = r.a
           /\ last' = Call("Queue.dequeue", <<>>, LinkedList_size(queue), r)
           /\ queueOut' = Append(queueOut, r.ret)
    /\ queueRef' = Rest(queueRef)
    /\ UNCHANGED <<queueIn, notQueue>>

QueueNext ==
    \/ \E v \in QueueValues : FifoEnqueue(v)
    \/ FifoDequeue

SpecQueue == NewInit /\ [][QueueNext]_vars

\* C5: after v1 .. vn are enqueued in order on a new Queue, the k-th dequeue
\* returns vk for every k <= n, so n dequeues yield v1, ..., vn, and no call
\* raises; enqueueing "a", "b", "c" (1, 2, 3) yields "a", "b", "c".
C5_QueueFifo ==
    /\ last.exc = NoExc
    /\ \A k \in 1 .. Len(queueOut) :
          k <= Len(queueIn) => queueOut[k] = queueIn[k]
    /\ queueIn = <<1, 2, 3>> /\ Len(queueOut) = 3 => queueOut = <<1, 2, 3>>

\* C5 witness: "a", "b", "c" were enqueued and three dequeues have run.
C5_Witness ==
    /\ queueIn = <<1, 2, 3>>
    /\ Len(queueOut) = 3
    /\ last.op = "Queue.dequeue"
    /\ last.pre = 1

---------------------------------------------------------------------------
(* SpecContainers: a caller that makes any interleaving of calls on a      *)
(* Stack, a Queue, a MinHeap and a MaxHeap.  The four objects share        *)
(* nothing; the caller fills one of them only while the other three are    *)
(* empty.                                                                  *)

HeapValues == 1 .. MaxHeapVal

Sizes ==
    [Stack |-> ArrayList_size(stack), Queue |-> LinkedList_size(queue),
     MinHeap |-> MinHeap_size(minHeap), MaxHeap |-> MaxHeap_size(maxHeap)]

OthersEmpty(c) == \A d \in DOMAIN Sizes \ {c} : Sizes[d] = 0

BagAdd(b, v) == b (+) SetToBag({v})

BagRemove(b, v) == IF v = None THEN b ELSE b (-) SetToBag({v})

StackPush(v) ==
    /\ OthersEmpty("Stack")
    /\ ArrayList_size(stack) < MaxUseSize
    /\ \E r \in {Stack_push(stack, v)} :
           /\ stack' = r.a
           /\ last' = Call("Stack.push", <<v>>, ArrayList_size(stack), r)
    /\ stackRef' = Append(stackRef, v)
    /\ filled' = filled \cup {"Stack"}
    /\ UNCHANGED <<stackIn, stackOut, gen, runVars, arrVars, queueVars,
                   heapVars>>

StackPop ==
    /\ \E r \in {Stack_pop(stack)} :
           /\ stack' = r.a
           /\ last' = Call("Stack.pop", <<>>, ArrayList_size(stack), r)
    /\ stackRef' = Front(stackRef)
    /\ UNCHANGED <<stackIn, stackOut, notStack>>

StackPeek ==
    /\ \E r \in {Stack_peek(stack)} :
           /\ stack' = r.a
           /\ last' = Call("Stack.peek", <<>>, ArrayList_size(stack), r)
    /\ UNCHANGED <<stackIn, stackOut, stackRef, notStack>>

Enqueue(v) ==
    /\ OthersEmpty("Queue")
    /\ LinkedList_size(queue) < MaxUseSize
    /\ \E r \in {Queue_enqueue(queue, v)} :
           /\ queue' = r.a
           /\ last' = Call("Queue.enqueue", <<v>>, LinkedList_size(queue), r)
    /\ queueRef' = Append(queueRef, v)
    /\ filled' = filled \cup {"Queue"}
    /\ UNCHANGED <<queueIn, queueOut, gen, runVars, arrVars, stackVars,
                   heapVars>>

Dequeue ==
    /\ \E r \in {Queue_dequeue(queue)} :
           /\ queue' = r.a
           /\ last' = Call("Queue.dequeue", <<>>, LinkedList_size(queue), r)
    /\ queueRef' = Rest(queueRef)
    /\ UNCHANGED <<queueIn, queueOut, notQueue>>

MinPush(v) ==
    /\ OthersEmpty("MinHeap")
    /\ MinHeap_size(minHeap) < MaxHeapSize
    /\ \E r \in {MinHeap_push(minHeap, v)} :
           /\ minHeap' = r.a
           /\ last' = Call("MinHeap.push", <<v>>, MinHeap_size(minHeap), r)
    /\ minBag' = BagAdd(minBag, v)
    /\ filled' = filled \cup {"MinHeap"}
    /\ UNCHANGED <<minOut, maxVars, sortIn, gen, runVars, arrVars, stackVars,
                   queueVars>>

MinPop ==
    /\ \E r \in {MinHeap_pop(minHeap)} :
           /\ minHeap' = r.a
           /\ last' = Call("MinHeap.pop", <<>>, MinHeap_size(minHeap), r)
           /\ minBag' = BagRemove(minBag, r.ret)
    /\ UNCHANGED <<minOut, maxVars, sortIn, gen, runVars, arrVars, stackVars,
                   queueVars, filled>>

MinPeek ==
    /\ \E r \in {MinHeap_peek(minHeap)} :
           /\ minHeap' = r.a
           /\ last' = Call("MinHeap.peek", <<>>, MinHeap_size(minHeap), r)
    /\ UNCHANGED <<minBag, minOut, maxVars, sortIn, gen, runVars, arrVars,
                   stackVars, queueVars, filled>>

MaxPush(v) ==
    /\ OthersEmpty("MaxHeap")
    /\ MaxHeap_size(maxHeap) < MaxHeapSize
    /\ \E r \in {MaxHeap_push(maxHeap, v)} :
           /\ maxHeap' = r.a
           /\ last' = Call("MaxHeap.push", <<v>>, MaxHeap_size(maxHeap), r)
    /\ maxBag' = BagAdd(maxBag, v)
    /\ filled' = filled \cup {"MaxHeap"}
    /\ UNCHANGED <<maxOut, minVars, sortIn, gen, runVars, arrVars, stackVars,
                   queueVars>>

MaxPop ==
    /\ \E r \in {MaxHeap_pop(maxHeap)} :
           /\ maxHeap' = r.a
           /\ last' = Call("MaxHeap.pop", <<>>, MaxHeap_size(maxHeap), r)
           /\ maxBag' = BagRemove(maxBag, r.ret)
    /\ UNCHANGED <<maxOut, minVars, sortIn, gen, runVars, arrVars, stackVars,
                   queueVars, filled>>

MaxPeek ==
    /\ \E r \in {MaxHeap_peek(maxHeap)} :
           /\ maxHeap' = r.a
           /\ last' = Call("MaxHeap.peek", <<>>, MaxHeap_size(maxHeap), r)
    /\ UNCHANGED <<maxBag, maxOut, minVars, sortIn, gen, runVars, arrVars,
                   stackVars, queueVars, filled>>

ContainersNext ==
    \/ \E v \in StackValues : StackPush(v)
    \/ StackPop
    \/ StackPeek
    \/ \E v \in QueueValues : Enqueue(v)
    \/ Dequeue
    \/ \E v \in HeapValues : MinPush(v)
    \/ MinPop
    \/ MinPeek
    \/ \E v \in HeapValues : MaxPush(v)
    \/ MaxPop
    \/ MaxPeek

SpecContainers == NewInit /\ [][ContainersNext]_vars

SetMin(S) == CHOOSE x \in S : \A y \in S : x <= y

SetMax(S) == CHOOSE x \in S : \A y \in S : x >= y

\* C1: after any interleaving of push and pop on a new MinHeap (MaxHeap),
\* peek() returns the minimum (maximum) of the elements pushed and not yet
\* popped, and returns None exactly when there is no such element.
C1_PeekIsExtreme ==
    /\ MinHeap_peek(minHeap) =
          Return(minHeap, IF minBag = EmptyBag THEN None
                          ELSE SetMin(BagToSet(minBag)))
    /\ MaxHeap_peek(maxHeap) =
          Return(maxHeap, IF maxBag = EmptyBag THEN None
                          ELSE SetMax(BagToSet(maxBag)))

\* C1 witness: both heaps have been used, and a pop has just left the
\* MinHeap with at least three elements, two of them equal.
C1_Witness ==
    /\ "MaxHeap" \in filled
    /\ last.op = "MinHeap.pop"
    /\ MinHeap_size(minHeap) >= 3
    /\ \E v \in HeapValues : CopiesIn(v, minBag) >= 2
    /\ MinHeap_peek(minHeap).ret = SetMin(BagToSet(minBag))

\* The heap order of the backing array under the order le on elements.
HeapOrdered(h, le(_, _)) ==
    \A i \in 1 .. ArrayList_size(h) - 1 : le(h.data[(i - 1) \div 2], h.data[i])

\* C2: after every completed push or pop, data[(i-1)//2] <= data[i] for
\* every 0 < i < size in a MinHeap and data[(i-1)//2] >= data[i] in a
\* MaxHeap, duplicates included.
C2_HeapOrder ==
    /\ HeapOrdered(minHeap, LAMBDA x, y : x <= y)
    /\ HeapOrdered(maxHeap, LAMBDA x, y : x >= y)

\* C2 witness: a pop has just left the MaxHeap with at least four elements,
\* two of them equal, after the MinHeap was used.
C2_Witness ==
    /\ "MinHeap" \in filled
    /\ last.op = "MaxHeap.pop"
    /\ MaxHeap_size(maxHeap) >= 4
    /\ \E v \in HeapValues : CopiesIn(v, maxBag) >= 2

EmptyQueries ==
    {"Stack.pop", "Stack.peek", "Queue.dequeue", "MinHeap.pop",
     "MinHeap.peek", "MaxHeap.pop", "MaxHeap.peek"}

\* C8: pop and peek on an empty Stack, dequeue on an empty Queue, and pop
\* and peek on an empty MinHeap or MaxHeap return None and raise nothing,
\* on a new container and on one that was filled and drained.
C8_EmptyReturnsNone ==
    last.op \in EmptyQueries /\ last.pre = 0 =>
        last.ret = None /\ last.exc = NoExc

\* C8 witness: all four containers have been filled and drained, and a call
\* on an empty one has just returned None.
C8_Witness ==
    /\ filled = {"Stack", "Queue", "MinHeap", "MaxHeap"}
    /\ \A c \in DOMAIN Sizes : Sizes[c] = 0
    /\ last.op \in EmptyQueries
    /\ last.pre = 0
    /\ last.ret = None

\* The nodes met from _head along the next links: chain[k] is the node k
\* links away from _head, None once the chain has ended.
ChainFrom(l) ==
    LET nth[k \in 0 .. PoolSize] ==
            IF k = 0 THEN l.head
            ELSE IF nth[k - 1] \notin DOMAIN l.nodes THEN None
            ELSE l.nodes[nth[k - 1]].next
    IN  nth

\* C13: after any sequence of add_last and remove_first on a LinkedList,
\* head is None iff size = 0 iff tail is None; when the list is not empty,
\* tail.next is None, tail is met from head along the next links and the
\* number of nodes on that chain is size.
C13_ListShape ==
    LET chain == ChainFrom(queue)
        on == {k \in DOMAIN chain : chain[k] # None}
    IN  /\ (queue.head = None) <=> (queue.size = 0)
        /\ (queue.tail = None) <=> (queue.size = 0)
        /\ queue.size # 0 =>
               /\ queue.tail \in DOMAIN queue.nodes
               /\ queue.nodes[queue.tail].next = None
               /\ \E k \in on : chain[k] = queue.tail
               /\ Cardinality(on) = queue.size

\* C13 witness: the list was emptied by remove_first, and later calls of
\* add_last, with a remove_first between them, have left two nodes on it.
C13_Witness ==
    /\ last.op = "Queue.enqueue"
    /\ queue.size = 2
    /\ queue.head # queue.tail
    /\ queue.head > 3

\* C14: remove_last on an ArrayList of size 0 (Stack.pop on its _items) and
\* remove_first on a LinkedList of size 0 (Queue.dequeue on its _items)
\* return None, raise nothing and leave the container as it was: size 0,
\* capacity unchanged, head and tail None; a repeated call finds the same
\* state and does the same.
C14_EmptyRemovalFrame ==
    /\ [](\A c \in CapArgs :
             ArrayList_remove_last(ArrayList_init(c)) =
                 Return(ArrayList_init(c), None))
    /\ [][/\ last'.op = "Stack.pop" /\ ArrayList_size(stack) = 0 =>
               /\ last'.ret = None /\ last'.exc = NoExc
               /\ stack' = stack
               /\ ArrayList_remove_last(stack') = Return(stack, None)
          /\ last'.op = "Queue.dequeue" /\ LinkedList_size(queue) = 0 =>
               /\ last'.ret = None /\ last'.exc = NoExc
               /\ queue' = queue
               /\ queue'.head = None /\ queue'.tail = None
               /\ LinkedList_remove_first(queue') = Return(queue, None)
          /\ ArrayList_size(stack') >= 0
          /\ LinkedList_size(queue') >= 0]_vars

\* C14 witness: a Queue that was filled and drained has taken a dequeue
\* while empty, after the Stack was filled and drained too.
C14_Witness ==
    /\ {"Stack", "Queue"} \subseteq filled
    /\ last.op = "Queue.dequeue"
    /\ last.pre = 0
    /\ ArrayList_size(stack) = 0
    /\ queue.head = None

Peeks == {"Stack.peek", "MinHeap.peek", "MaxHeap.peek"}

\* C15: peek on a Stack, a MinHeap or a MaxHeap leaves the container as it
\* was, and on a non-empty container the value peek returns is the value
\* the pop that follows it immediately returns.
C15_PeekFrame ==
    [][/\ last'.op \in Peeks =>
              /\ stack' = stack /\ minHeap' = minHeap /\ maxHeap' = maxHeap
              /\ last'.exc = NoExc
       /\ \A c \in {"Stack", "MinHeap", "MaxHeap"} :
              (/\ last.op = c \o ".peek"
               /\ last'.op = c \o ".pop"
               /\ last.pre > 0) =>
                  /\ last'.ret = last.ret
                  /\ last'.exc = NoExc
                  /\ last'.pre = last.pre]_vars

\* C15 witness: peek has just run on a MinHeap of at least three elements,
\* after the Stack was used; the heap still has its elements and the pop
\* that can follow returns the value peek returned.
C15_Witness ==
    /\ "Stack" \in filled
    /\ last.op = "MinHeap.peek"
    /\ last.pre >= 3
    /\ MinHeap_size(minHeap) = last.pre
    /\ MinHeap_pop(minHeap).ret = last.ret

\* The multiset of the elements of a heap: value -> number of slots below
\* size that hold it.
HeapBag(h) ==
    LET held == 0 .. ArrayList_size(h) - 1
    IN  [v \in {h.data[i] : i \in held} |->
            Cardinality({i \in held : h.data[i] = v})]

\* C16: pop on a non-empty MinHeap or MaxHeap returns the element at index
\* 0, lowers size() by exactly 1 and leaves the multiset of elements equal
\* to the one before minus one occurrence of the returned value, also when
\* size is 1 and when the last element equals the root.
C16_PopRemovesRoot ==
    [][/\ last'.op = "MinHeap.pop" /\ MinHeap_size(minHeap) > 0 =>
              /\ last'.exc = NoExc
              /\ last'.ret = minHeap.data[0]
              /\ MinHeap_size(minHeap') = MinHeap_size(minHeap) - 1
              /\ BagAdd(HeapBag(minHeap'), last'.ret) = HeapBag(minHeap)
       /\ last'.op = "MaxHeap.pop" /\ MaxHeap_size(maxHeap) > 0 =>
              /\ last'.exc = NoExc
              /\ last'.ret = maxHeap.data[0]
              /\ MaxHeap_size(maxHeap') = MaxHeap_size(maxHeap) - 1
              /\ BagAdd(HeapBag(maxHeap'), last'.ret) = HeapBag(maxHeap)]_vars

\* C16 witness: pop has taken the root off a MaxHeap of at least three
\* elements that were all equal, so that the last element equalled the
\* root.
C16_Witness ==
    /\ last.op = "MaxHeap.pop"
    /\ last.pre >= 3
    /\ MaxHeap_size(maxHeap) = last.pre - 1
    /\ DOMAIN HeapBag(maxHeap) = {last.ret}

\* C16 witness of the smallest case: pop has emptied a MinHeap of size 1.
C16_WitnessSingle ==
    /\ last.op = "MinHeap.pop"
    /\ last.pre = 1
    /\ last.ret # None
    /\ MinHeap_size(minHeap) = 0

---------------------------------------------------------------------------
(* SpecNoneStored: a caller that stores None among other values on a Stack *)
(* and on a Queue, as serialize_binary_tree enqueues the missing children  *)
(* of a node, and asks is_empty between the calls.                         *)

StackIsEmpty ==
    /\ last' = Call("Stack.is_empty", <<>>, ArrayList_size(stack),
                    Return(stack, Stack_is_empty(stack)))
    /\ UNCHANGED <<stackVars, notStack>>

QueueIsEmpty ==
    /\ last' = Call("Queue.is_empty", <<>>, LinkedList_size(queue),
                    Return(queue, Queue_is_empty(queue)))
    /\ UNCHANGED <<queueVars, notQueue>>

NoneStoredNext ==
    \/ \E v \in StackValues \cup {None} : StackPush(v)
    \/ StackPop
    \/ StackIsEmpty
    \/ \E v \in QueueValues \cup {None} : Enqueue(v)
    \/ Dequeue
    \/ QueueIsEmpty

SpecNoneStored == NewInit /\ [][NoneStoredNext]_vars

\* C18: Stack.is_empty() and Queue.is_empty() are true exactly when the
\* number of stored elements, pushes or enqueues minus the removals made on
\* a non-empty container, is 0, also when None is among the stored values;
\* a pop or dequeue made while is_empty() is false returns the stored
\* element that was due, so a None it returns is a stored None and not the
\* sign of an empty container.
C18_IsEmptyCounts ==
    /\ [](/\ Stack_is_empty(stack) <=> (Len(stackRef) = 0)
          /\ Queue_is_empty(queue) <=> (Len(queueRef) = 0))
    /\ [][/\ last'.op = "Stack.is_empty" =>
                 last'.ret = (Len(stackRef) = 0)
          /\ last'.op = "Queue.is_empty" =>
                 last'.ret = (Len(queueRef) = 0)
          /\ last'.op = "Stack.pop" /\ ~Stack_is_empty(stack) =>
                 /\ stackRef # <<>>
                 /\ last'.ret = stackRef[Len(stackRef)]
                 /\ last'.exc = NoExc
          /\ last'.op = "Queue.dequeue" /\ ~Queue_is_empty(queue) =>
                 /\ queueRef # <<>>
                 /\ last'.ret = queueRef[1]
                 /\ last'.exc = NoExc]_vars

\* C18 witness: a dequeue has returned a stored None from a Queue that was
\* not empty and still holds a None, so that is_empty() is false.
C18_Witness ==
    /\ last.op = "Queue.dequeue"
    /\ last.pre = 2
    /\ last.ret = None
    /\ queueRef = <<None>>
    /\ ~Queue_is_empty(queue)

---------------------------------------------------------------------------
(* SpecCloze: one call of ClozeGenerator.generate_cards, step by step:     *)
(* every turn of its loop over the candidates, the test of the minimum,    *)
(* and every turn of the five loops of _generate_additional_cards.  The    *)
(* candidate lists are the short lists over a few candidates that share    *)
(* texts, terms and letters up to case.                                    *)

containerVars ==
    <<arrVars, stackVars, queueVars, heapVars, filled, runVars, last>>

\* One turn of the loop of generate_cards: the forward card of the
\* candidate, then its reverse card when the configuration asks for them.
ForEachCandidate ==
    /\ gen.pc = "candidates"
    /\ gen.i < Len(gen.candidates)
    /\ \E candidate \in {gen.candidates[gen.i + 1]} :
       \E forward \in {ClozeGenerator_keep_if_new(
                          [list |-> gen.cards, seen |-> gen.seen_fronts],
                          ClozeGenerator_create_cloze_card(candidate))} :
       \E acc \in {IF gen.config.generate_reverse_cards
                   THEN ClozeGenerator_keep_if_new(
                            forward,
                            ClozeGenerator_create_reverse_card(candidate))
                   ELSE forward} :
           gen' = [gen EXCEPT !.cards = acc.list, !.seen_fronts = acc.seen,
                              !.i = gen.i + 1]
    /\ UNCHANGED containerVars

\* After the loop: with fewer cards than min_cards the call goes on to
\* _generate_additional_cards for the cards missing, otherwise it returns.
TestMinimum ==
    /\ gen.pc = "candidates"
    /\ gen.i = Len(gen.candidates)
    /\ gen' = IF Len(gen.cards) < gen.config.min_cards
              THEN [gen EXCEPT !.pc = "multi", !.i = 0, !.additional = <<>>,
                               !.needed = gen.config.min_cards - Len(gen.cards)]
              ELSE [gen EXCEPT !.pc = "done"]
    /\ UNCHANGED containerVars

\* The test that ends a loop of _generate_additional_cards early.
Enough == Len(gen.additional) >= gen.needed

\* The call after a strategy has built card for the candidate at i.
Tried(card, step) ==
    With(ClozeGenerator_keep_if_new(
             [list |-> gen.additional, seen |-> gen.seen_fronts], card),
         LAMBDA acc :
        [gen EXCEPT !.additional = acc.list, !.seen_fronts = acc.seen,
                    !.i = gen.i + step])

\* Strategy 1, one turn of  for i in range(0, len(candidates) - 1, 2).
MultiCloze ==
    /\ gen.pc = "multi"
    /\ gen' = IF gen.i >= Len(gen.candidates) - 1 \/ Enough
              THEN [gen EXCEPT !.pc = "fill", !.i = 0]
              ELSE Tried(ClozeGenerator_create_multi_cloze_card(
                             gen.candidates[gen.i + 1],
                             gen.candidates[gen.i + 2]), 2)
    /\ UNCHANGED containerVars

\* Strategy 2, one turn of its loop over the candidates.
FillBlank ==
    /\ gen.pc = "fill"
    /\ gen' = IF gen.i >= Len(gen.candidates) \/ Enough
              THEN [gen EXCEPT !.pc = "qa", !.i = 0]
              ELSE Tried(ClozeGenerator_create_fill_blank_card(
                             gen.candidates[gen.i + 1]), 1)
    /\ UNCHANGED containerVars

\* Strategy 3.
QuestionAnswer ==
    /\ gen.pc = "qa"
    /\ gen' = IF gen.i >= Len(gen.candidates) \/ Enough
              THEN [gen EXCEPT !.pc = "tf", !.i = 0]
              ELSE Tried(ClozeGenerator_create_qa_card(
                             gen.candidates[gen.i + 1]), 1)
    /\ UNCHANGED containerVars

\* Strategy 4.
TrueFalse ==
    /\ gen.pc = "tf"
    /\ gen' = IF gen.i >= Len(gen.candidates) \/ Enough
              THEN [gen EXCEPT !.pc = "complete", !.i = 0]
              ELSE Tried(ClozeGenerator_create_true_false_card(
                             gen.candidates[gen.i + 1]), 1)
    /\ UNCHANGED containerVars

\* Strategy 5; when its loop is over _generate_additional_cards returns,
\* generate_cards extends cards by the additional cards and returns.
CompleteSentence ==
    /\ gen.pc = "complete"
    /\ gen' = IF gen.i >= Len(gen.candidates) \/ Enough
              THEN [gen EXCEPT !.pc = "done",
                               !.cards = gen.cards \o gen.additional]
              ELSE Tried(ClozeGenerator_create_complete_sentence_card(
                             gen.candidates[gen.i + 1]), 1)
    /\ UNCHANGED containerVars

ClozeNext ==
    \/ ForEachCandidate
    \/ TestMinimum
    \/ MultiCloze
    \/ FillBlank
    \/ QuestionAnswer
    \/ TrueFalse
    \/ CompleteSentence

\* Most candidates in a short list.
MaxCandidates == 2

\* min_cards of test_cards_have_unique_ids and of
\* test_minimum_card_count_property.
FewCards == 5

MinCards == 100

\* "React hooks ... use state.", and a text with the same beginning, Hooks
\* capitalised and no state.
Texts == {<<"react", "hooks", "use", "state">>, <<"react", "Hooks", "keep">>}

Terms == {<<"hooks">>, <<"state">>}

ConceptTypes == {TERM, DEFINITION, CODE_PATTERN, KEY_CONCEPT}

ClozeCandidates ==
    [full_text : Texts, cloze_text : Terms, cloze_type : ConceptTypes]

ShortLists == UNION {[1 .. n -> ClozeCandidates] : n \in 0 .. MaxCandidates}

ContainersNew ==
    /\ ArrNew(DefaultCapacity)
    /\ StackNew /\ QueueNew /\ HeapNew
    /\ filled = {}
    /\ frame = NoFrame
    /\ sol = NotRun
    /\ last = NoCall

ClozeInit ==
    /\ ContainersNew
    /\ \E candidates \in ShortLists, min_cards \in {FewCards, MinCards} :
           gen = Called(candidates, GeneratorConfig(min_cards, TRUE))

SpecCloze == ClozeInit /\ [][ClozeNext]_vars

---------------------------------------------------------------------------
(* SpecClozeMin: one call of generate_cards with min_cards = 100 and       *)
(* reverse cards on a list of at least 25 candidates as                    *)
(* test_minimum_card_count_property draws them: candidate i has the term   *)
(* term<i> in the text "<prefix> term<i> suffix item<i>".  The lists tried *)
(* differ in their length, in the types of the candidates and in how many  *)
(* different prefixes they have.                                           *)

\* The least number of candidates the test accepts.
MinCandidates == 25

\* Most candidates beyond MinCandidates.
MaxSurplus == 1

TestTypes == {TERM, DEFINITION, KEY_CONCEPT}

\* The list of n candidates whose types alternate between typeOf[0] and
\* typeOf[1] and whose prefixes are taken in turn from d prefixes.
TestCandidates(n, typeOf, d) ==
    [k \in 1 .. n |->
        [full_text  |-> <<"prefix" \o ToString((k - 1) % d),
                          "term" \o ToString(k - 1), "suffix",
                          "item" \o ToString(k - 1)>>,
         cloze_text |-> <<"term" \o ToString(k - 1)>>,
         cloze_type |-> typeOf[(k - 1) % 2]]]

ClozeMinInit ==
    /\ ContainersNew
    /\ \E n \in MinCandidates .. MinCandidates + MaxSurplus,
          typeOf \in [0 .. 1 -> TestTypes] :
       \E d \in {1, 2, n} :
           gen = Called(TestCandidates(n, typeOf, d),
                        GeneratorConfig(MinCards, TRUE))

SpecClozeMin == ClozeMinInit /\ [][ClozeNext]_vars

\* The candidates are unique and valid: every term occurs in its own text,
\* the texts are pairwise different, the types are among the three drawn.
UniqueValid(candidates) ==
    /\ \A k \in DOMAIN candidates :
          /\ Occurs(candidates[k].full_text, candidates[k].cloze_text) # {}
          /\ candidates[k].cloze_type \in TestTypes
    /\ \A k, m \in DOMAIN candidates :
          k # m => candidates[k].full_text # candidates[m].full_text

\* C19: for every list of at least 25 unique valid candidates, with
\* min_cards = 100 and reverse cards on, generate_cards returns at least
\* min_cards cards.
C19_MinimumCards ==
    (/\ gen.pc = "done"
     /\ Len(gen.candidates) >= MinCandidates
     /\ UniqueValid(gen.candidates)
     /\ gen.config = GeneratorConfig(MinCards, TRUE))
        => Len(gen.cards) >= gen.config.min_cards

\* C19 failing input: the call on 25 KEY_CONCEPT candidates whose texts all
\* begin with the same prefix has returned, with 76 cards.
C19_FailingInput ==
    /\ gen.pc = "done"
    /\ Len(gen.candidates) = MinCandidates
    /\ UniqueValid(gen.candidates)
    /\ \A k \in DOMAIN gen.candidates :
          /\ gen.candidates[k].cloze_type = KEY_CONCEPT
          /\ gen.candidates[k].full_text[1] = "prefix0"
    /\ gen.config = GeneratorConfig(MinCards, TRUE)
    /\ Len(gen.cards) = 76

---------------------------------------------------------------------------
(* SpecHeapSort: a caller that pushes N distinct integers, in any order,   *)
(* on a new heap and then pops N times.  A run uses one of the two heaps.  *)

SortValues == {1, 3, 5, 8} \cup (9 .. MaxSortLen + 4)

\* The sequences of distinct integers of SortValues, up to MaxSortLen long.
SortInputs ==
    {s \in UNION {[1 .. n -> SortValues] : n \in 0 .. MaxSortLen} :
        \A i, j \in DOMAIN s : i # j => s[i] # s[j]}

SortInit ==
    /\ ArrNew(DefaultCapacity)
    /\ StackNew /\ QueueNew
    /\ minHeap = MinHeap_init
    /\ maxHeap = MaxHeap_init
    /\ minBag = EmptyBag
    /\ maxBag = EmptyBag
    /\ sortIn \in SortInputs
    /\ gen = NotCalled
    /\ frame = NoFrame
    /\ sol = NotRun
    /\ minOut = <<>>
    /\ maxOut = <<>>
    /\ filled = {}
    /\ last = NoCall

SortMinPush ==
    /\ "MaxHeap" \notin filled
    /\ minOut = <<>>
    /\ BagCardinality(minBag) < Len(sortIn)
    /\ LET v == sortIn[BagCardinality(minBag) + 1]
       IN  /\ \E r \in {MinHeap_push(minHeap, v)} :
                 /\ minHeap' = r.a
                 /\ last' = Call("MinHeap.push", <<v>>, MinHeap_size(minHeap), r)
           /\ minBag' = BagAdd(minBag, v)
    /\ filled' = filled \cup {"MinHeap"}
    /\ UNCHANGED <<minOut, maxVars, sortIn, gen, runVars, arrVars, stackVars,
                   queueVars>>

SortMinPop ==
    /\ "MinHeap" \in filled
    /\ minOut # <<>> \/ BagCardinality(minBag) = Len(sortIn)
    /\ Len(minOut) < Len(sortIn)
    /\ \E r \in {MinHeap_pop(minHeap)} :
           /\ minHeap' = r.a
           /\ last' = Call("MinHeap.pop", <<>>, MinHeap_size(minHeap), r)
           /\ minBag' = BagRemove(minBag, r.ret)
           /\ minOut' = Append(minOut, r.ret)
    /\ UNCHANGED <<maxVars, sortIn, gen, runVars, arrVars, stackVars,
                   queueVars, filled>>

SortMaxPush ==
    /\ "MinHeap" \notin filled
    /\ maxOut = <<>>
    /\ BagCardinality(maxBag) < Len(sortIn)
    /\ LET v == sortIn[BagCardinality(maxBag) + 1]
       IN  /\ \E r \in {MaxHeap_push(maxHeap, v)} :
                 /\ maxHeap' = r.a
                 /\ last' = Call("MaxHeap.push", <<v>>, MaxHeap_size(maxHeap), r)
           /\ maxBag' = BagAdd(maxBag, v)
    /\ filled' = filled \cup {"MaxHeap"}
    /\ UNCHANGED <<maxOut, minVars, sortIn, gen, runVars, arrVars, stackVars,
                   queueVars>>

SortMaxPop ==
    /\ "MaxHeap" \in filled
    /\ maxOut # <<>> \/ BagCardinality(maxBag) = Len(sortIn)
    /\ Len(maxOut) < Len(sortIn)
    /\ \E r \in {MaxHeap_pop(maxHeap)} :
           /\ maxHeap' = r.a
           /\ last' = Call("MaxHeap.pop", <<>>, MaxHeap_size(maxHeap), r)
           /\ maxBag' = BagRemove(maxBag, r.ret)
           /\ maxOut' = Append(maxOut, r.ret)
    /\ UNCHANGED <<minVars, sortIn, gen, runVars, arrVars, stackVars,
                   queueVars, filled>>

SortNext ==
    \/ SortMinPush
    \/ SortMinPop
    \/ SortMaxPush
    \/ SortMaxPop

SpecHeapSort == SortInit /\ [][SortNext]_vars

Range(s) == {s[i] : i \in DOMAIN s}

Ascending(s) == \A i, j \in DOMAIN s : i < j => s[i] < s[j]

Descending(s) == \A i, j \in DOMAIN s : i < j => s[i] > s[j]

\* C3: after a permutation of N distinct integers is pushed on a new
\* MinHeap, N pops yield exactly those integers in ascending order; on a
\* MaxHeap, in descending order; pushing 5, 3, 8, 1 on a MinHeap yields
\* 1, 3, 5, 8.
C3_HeapSort ==
    /\ Len(minOut) = Len(sortIn) /\ "MinHeap" \in filled =>
          Ascending(minOut) /\ Range(minOut) = Range(sortIn)
    /\ Len(maxOut) = Len(sortIn) /\ "MaxHeap" \in filled =>
          Descending(maxOut) /\ Range(maxOut) = Range(sortIn)
    /\ sortIn = <<5, 3, 8, 1>> /\ Len(minOut) = 4 => minOut = <<1, 3, 5, 8>>

\* C3 witness: 5, 3, 8, 1 were pushed on the MinHeap and four pops have
\* returned.
C3_Witness ==
    /\ sortIn = <<5, 3, 8, 1>>
    /\ Len(minOut) = 4
    /\ last.op = "MinHeap.pop"

---------------------------------------------------------------------------
(* SpecHeapSteps: a caller that makes any sequence of push, pop, peek and  *)
(* size calls on a MinHeap and a MaxHeap, with push and pop taken one pass *)
(* of their _sift_up / _sift_down loop at a time.  frame holds the method  *)
(* in progress; the heap variable holds _data as the method has left it so *)
(* far.  The caller fills one heap only while the other is empty.          *)

Heaps == {"MinHeap", "MaxHeap"}

HeapOf(obj) == IF obj = "MinHeap" THEN minHeap ELSE maxHeap

BagOf(obj) == IF obj = "MinHeap" THEN minBag ELSE maxBag

OtherHeap(obj) == IF obj = "MinHeap" THEN maxHeap ELSE minHeap

\* The method of the object obj: Python's dispatch on the class.
Heap_sift_up_pass(obj, st) ==
    IF obj = "MinHeap" THEN MinHeap_sift_up_pass(st)
    ELSE MaxHeap_sift_up_pass(st)

Heap_sift_down_pass(obj, st) ==
    IF obj = "MinHeap" THEN MinHeap_sift_down_pass(st)
    ELSE MaxHeap_sift_down_pass(st)

Heap_pop_head(obj, h) ==
    IF obj = "MinHeap" THEN MinHeap_pop_head(h) ELSE MaxHeap_pop_head(h)

Heap_peek(obj, h) ==
    IF obj = "MinHeap" THEN MinHeap_peek(h) ELSE MaxHeap_peek(h)

Heap_size(obj, h) ==
    IF obj = "MinHeap" THEN MinHeap_size(h) ELSE MaxHeap_size(h)

\* The object obj gets _data a, and bag as the record of what it holds.
HeapBecomes(obj, a, bag) ==
    /\ minHeap' = IF obj = "MinHeap" THEN a ELSE minHeap
    /\ maxHeap' = IF obj = "MaxHeap" THEN a ELSE maxHeap
    /\ minBag' = IF obj = "MinHeap" THEN bag ELSE minBag
    /\ maxBag' = IF obj = "MaxHeap" THEN bag ELSE maxBag

notHeaps ==
    <<sortIn, minOut, maxOut, gen, sol, arrVars, stackVars, queueVars>>

\* push(value) up to its call of _sift_up.
PushCall(obj, v) ==
    /\ frame.pc = "idle"
    /\ ArrayList_size(OtherHeap(obj)) = 0
    /\ ArrayList_size(HeapOf(obj)) < MaxHeapSize
    /\ \E added \in {ArrayList_add(HeapOf(obj), v)} :
           /\ HeapBecomes(obj, added.a, BagAdd(BagOf(obj), v))
           /\ frame' =
                  [obj |-> obj, method |-> "push",
                   pc |-> IF added.exc = NoExc THEN "_sift_up" ELSE "return",
                   value |-> v, idx |-> ArrayList_size(added.a) - 1,
                   size |-> 0, exc |-> added.exc, pre |-> HeapOf(obj)]
    /\ filled' = filled \cup {obj}
    /\ UNCHANGED <<last, notHeaps>>

\* One pass of the while loop of _sift_up.
SiftUpPass ==
    /\ frame.pc = "_sift_up"
    /\ \E st \in {Heap_sift_up_pass(frame.obj,
                      [a |-> HeapOf(frame.obj), idx |-> frame.idx,
                       exc |-> NoExc, done |-> FALSE])} :
           /\ HeapBecomes(frame.obj, st.a, BagOf(frame.obj))
           /\ frame' = [frame EXCEPT
                            !.idx = st.idx, !.exc = st.exc,
                            !.pc = IF st.done THEN "return" ELSE "_sift_up"]
    /\ UNCHANGED <<last, filled, notHeaps>>

\* pop() up to its call of _sift_down, or to its return when it makes none.
PopCall(obj) ==
    /\ frame.pc = "idle"
    /\ \E head \in {Heap_pop_head(obj, HeapOf(obj))} :
           /\ HeapBecomes(obj, head.a, BagRemove(BagOf(obj), head.ret))
           /\ frame' =
                  [obj |-> obj, method |-> "pop",
                   pc |-> IF head.sift THEN "_sift_down" ELSE "return",
                   value |-> head.ret, idx |-> 0,
                   size |-> ArrayList_size(head.a), exc |-> head.exc,
                   pre |-> HeapOf(obj)]
    /\ UNCHANGED <<last, filled, notHeaps>>

\* One pass of the while loop of _sift_down.
SiftDownPass ==
    /\ frame.pc = "_sift_down"
    /\ \E st \in {Heap_sift_down_pass(frame.obj,
                      [a |-> HeapOf(frame.obj), idx |-> frame.idx,
                       exc |-> NoExc, done |-> FALSE, size |-> frame.size])} :
           /\ HeapBecomes(frame.obj, st.a, BagOf(frame.obj))
           /\ frame' = [frame EXCEPT
                            !.idx = st.idx, !.exc = st.exc,
                            !.pc = IF st.done THEN "return" ELSE "_sift_down"]
    /\ UNCHANGED <<last, filled, notHeaps>>

\* The method in progress returns, or raises what its loop raised.
MethodReturn ==
    /\ frame.pc = "return"
    /\ last' = Call(frame.obj \o "." \o frame.method,
                    IF frame.method = "push" THEN <<frame.value>> ELSE <<>>,
                    ArrayList_size(frame.pre),
                    [ret |-> IF frame.method = "pop" /\ frame.exc = NoExc
                             THEN frame.value ELSE None,
                     exc |-> frame.exc])
    /\ frame' = NoFrame
    /\ UNCHANGED <<heapVars, filled, gen, sol, arrVars, stackVars, queueVars>>

PeekCall(obj) ==
    /\ frame.pc = "idle"
    /\ \E r \in {Heap_peek(obj, HeapOf(obj))} :
           /\ HeapBecomes(obj, r.a, BagOf(obj))
           /\ last' = Call(obj \o ".peek", <<>>, ArrayList_size(HeapOf(obj)), r)
    /\ UNCHANGED <<frame, filled, notHeaps>>

SizeCall(obj) ==
    /\ frame.pc = "idle"
    /\ last' = Call(obj \o ".size", <<>>, ArrayList_size(HeapOf(obj)),
                    Return(HeapOf(obj), Heap_size(obj, HeapOf(obj))))
    /\ UNCHANGED <<heapVars, frame, filled, gen, sol, arrVars, stackVars,
                   queueVars>>

HeapStepsNext ==
    \/ \E obj \in Heaps, v \in HeapValues : PushCall(obj, v)
    \/ SiftUpPass
    \/ \E obj \in Heaps : PopCall(obj)
    \/ SiftDownPass
    \/ MethodReturn
    \/ \E obj \in Heaps : PeekCall(obj)
    \/ \E obj \in Heaps : SizeCall(obj)

SpecHeapSteps == NewInit /\ [][HeapStepsNext]_vars

\* The children of index i that are inside an array of the given size.
Children(i, size) == {c \in {i * 2 + 1, i * 2 + 2} : c < size}

\* C21: a pass of _sift_down that swaps exchanges the node with a child
\* whose value is the minimum (MaxHeap: maximum) of the children inside the
\* array and strictly smaller (larger) than the node's, the left child when
\* both children hold that value; a pass swaps nothing when no child is
\* strictly smaller (larger) than the node.
C21_SiftDownChoice ==
    [][frame.pc = "_sift_down" =>
          LET d == HeapOf(frame.obj).data
              d2 == HeapOf(frame.obj)'.data
              i == frame.idx
              c == frame'.idx
              kids == Children(i, frame.size)
              Beats(x, y) == IF frame.obj = "MinHeap" THEN x < y ELSE x > y
          IN  /\ c # i =>
                     /\ c \in kids
                     /\ \A k \in kids : ~Beats(d[k], d[c])
                     /\ Beats(d[c], d[i])
                     /\ (\A k \in kids : d[k] = d[c]) => c = i * 2 + 1
                     /\ d2 = [d EXCEPT ![i] = d[c], ![c] = d[i]]
                     /\ frame'.pc = "_sift_down"
              /\ (\A k \in kids : ~Beats(d[k], d[i])) =>
                     /\ c = i
                     /\ d2 = d
                     /\ frame'.pc = "return"]_vars

\* C21 witness: a pass of _sift_down has just swapped a node of a MinHeap
\* with its left child, which held the same value as the right child: the
\* node is now at the left child's index, holds more than the right child,
\* and its old index holds what the right child holds.
C21_Witness ==
    /\ frame.pc = "_sift_down"
    /\ frame.obj = "MinHeap"
    /\ frame.idx = 1
    /\ frame.size >= 3
    /\ minHeap.data[0] = minHeap.data[2]
    /\ minHeap.data[1] > minHeap.data[2]

\* The index i and the indices of its ancestors, up to the root.
RECURSIVE Ancestors(_)
Ancestors(i) == IF i <= 0 THEN {0} ELSE {i} \cup Ancestors((i - 1) \div 2)

\* C22: push(value) on a heap of n elements changes only indices on the
\* path from the new leaf n to the root.  The value ends at an index p of
\* that path whose parent, if it has one, is not beaten by the value (an
\* equal parent stays); every index of the path below p holds what its
\* parent held, which the value strictly beats; every other index holds
\* what it held; the contents are the previous contents plus the value.
C22_PushPath ==
    frame.pc = "return" /\ frame.method = "push" =>
        LET old == frame.pre.data
            new == HeapOf(frame.obj).data
            n == ArrayList_size(frame.pre)
            p == frame.idx
            v == frame.value
            Up(j) == (j - 1) \div 2
            Beats(x, y) == IF frame.obj = "MinHeap" THEN x < y ELSE x > y
        IN  /\ frame.exc = NoExc
            /\ ArrayList_size(HeapOf(frame.obj)) = n + 1
            /\ p \in Ancestors(n)
            /\ new[p] = v
            /\ p > 0 => ~Beats(v, old[Up(p)])
            /\ \A j \in Ancestors(n) \ Ancestors(p) :
                   new[j] = old[Up(j)] /\ Beats(v, old[Up(j)])
            /\ \A j \in 0 .. n - 1 :
                   j \notin Ancestors(n) \ Ancestors(p) /\ j # p =>
                       new[j] = old[j]
            /\ HeapBag(HeapOf(frame.obj)) = HeapBag(frame.pre) (+) SetToBag({v})

\* C22 witness: push on a MaxHeap of at least four elements has moved the
\* value up one level and stopped below the root, where its new parent
\* holds the same value; an index off the path holds a smaller value.
C22_Witness ==
    /\ frame.pc = "return"
    /\ frame.method = "push"
    /\ frame.obj = "MaxHeap"
    /\ ArrayList_size(frame.pre) >= 4
    /\ frame.idx = 1
    /\ maxHeap.data[0] = frame.value
    /\ maxHeap.data[2] < frame.value
    /\ maxHeap.data[1] # frame.pre.data[1]

\* C26: in any sequence of push, pop, peek and size calls on a MinHeap and
\* a MaxHeap, pop and peek on an empty heap and pop on a heap of one
\* element included, no get or set that push, pop, peek, _sift_up,
\* _sift_down or _swap makes on _data raises: no method in progress holds
\* an exception, none returns one, and every index the next pass of a loop
\* may read or write is inside the array.
C26_NoIndexError ==
    /\ frame.exc = NoExc
    /\ last.exc = NoExc
    /\ frame.pc = "_sift_up" =>
           /\ ListIndexOk(HeapOf(frame.obj).data, frame.idx)
           /\ frame.idx < ArrayList_size(HeapOf(frame.obj))
    /\ frame.pc = "_sift_down" =>
           /\ frame.idx < frame.size
           /\ frame.size = ArrayList_size(HeapOf(frame.obj))

\* C26 witness: pop on the empty MaxHeap has returned None, and a pop on
\* the MinHeap of the largest size is now in _sift_down below the root.
C26_Witness ==
    /\ last.op = "MaxHeap.pop"
    /\ last.pre = 0
    /\ last.ret = None
    /\ frame.obj = "MinHeap"
    /\ frame.pc = "_sift_down"
    /\ frame.idx > 0
    /\ frame.size = MaxHeapSize - 1

\* C26 witness of the heap of one element: pop has returned it and left
\* the heap empty.
C26_WitnessSingle ==
    /\ last.op = "MinHeap.pop"
    /\ last.pre = 1
    /\ last.ret # None
    /\ ArrayList_size(minHeap) = 0

---------------------------------------------------------------------------
(* SpecHeapStepsLive: SpecHeapSteps with a method in progress always       *)
(* taking its next step: Python runs a called method on until it returns,  *)
(* and there is one caller.                                                *)

SpecHeapStepsLive ==
    /\ SpecHeapSteps
    /\ WF_vars(SiftUpPass)
    /\ WF_vars(SiftDownPass)
    /\ WF_vars(MethodReturn)

\* C27: every push and every pop returns.  A pass of _sift_up that goes on
\* to another pass has strictly lowered idx, which stays at 0 or above, and
\* the pass at idx 0 ends the loop; a pass of _sift_down that goes on has
\* strictly raised idx, which stays below size, and the pass at an idx
\* with no child inside the array ends the loop.
C27_Terminates ==
    /\ frame.pc # "idle" ~> frame.pc = "idle"
    /\ [][/\ frame.pc = "_sift_up" =>
                 /\ frame'.pc \in {"_sift_up", "return"}
                 /\ frame'.pc = "_sift_up" =>
                        0 <= frame'.idx /\ frame'.idx < frame.idx
                 /\ frame.idx = 0 => frame'.pc = "return"
          /\ frame.pc = "_sift_down" =>
                 /\ frame'.pc \in {"_sift_down", "return"}
                 /\ frame'.pc = "_sift_down" =>
                        frame.idx < frame'.idx /\ frame'.idx < frame.size
                 /\ Children(frame.idx, frame.size) = {} =>
                        frame'.pc = "return"]_vars

\* C27 witness: push on a heap of at least three equal elements has
\* returned after moving a smaller value from the leaf to the root.
C27_Witness ==
    /\ last.op = "MinHeap.push"
    /\ last.exc = NoExc
    /\ last.pre >= 3
    /\ frame.pc = "idle"
    /\ minHeap.data[0] = last.args[1]
    /\ \A i \in 1 .. last.pre : minHeap.data[i] = minHeap.data[1]
    /\ minHeap.data[1] > minHeap.data[0]

\* C27 witness of pop: pop on a heap of the largest size is about to
\* return after _sift_down took idx from the root down two levels.
C27_WitnessPop ==
    /\ frame.pc = "return"
    /\ frame.method = "pop"
    /\ ArrayList_size(frame.pre) = MaxHeapSize
    /\ frame.idx = 3

---------------------------------------------------------------------------
(* SpecArrAll: a caller of one small ArrayList, any constructor argument,  *)
(* that makes any sequence of add / get / set / remove_last / to_list      *)
(* calls.                                                                  *)

ArrAllNext ==
    \/ \E v \in ArrValues : SnapAdd(v)
    \/ \E i \in ArrIndices : ArrGet(i)
    \/ \E i \in ArrIndices, v \in ArrValues : ArrSet(i, v)
    \/ ArrRemoveLast
    \/ ArrToList

SpecArrAll == ArrInit /\ [][ArrAllNext]_vars

\* C24: no call lowers the capacity, and remove_last leaves it as it was.
\* remove_last on a non-empty array lowers size by one and clears the slot
\* at the old last index; get and set at an index at or above size raise
\* IndexError and change nothing; only add raises size, by one, writing its
\* value at the old size.  So the slot remove_last gave up stays out of
\* reach of get and set until an add fills it again.
C24_CapacityNeverShrinks ==
    [][/\ arr'.capacity >= arr.capacity
       /\ last'.op = "ArrayList.remove_last" =>
              /\ arr'.capacity = arr.capacity
              /\ arr.size > 0 =>
                     /\ arr'.size = arr.size - 1
                     /\ arr'.data[arr.size - 1] = None
       /\ last'.op \in {"ArrayList.get", "ArrayList.set"}
              /\ last'.args[1] >= arr.size =>
                     /\ last'.exc = IndexError
                     /\ arr' = arr
       /\ arr'.size > arr.size =>
              /\ last'.op = "ArrayList.add"
              /\ arr'.size = arr.size + 1
              /\ arr'.data[arr.size] = last'.args[1]]_vars

\* C24 witness: the array has grown at least once and remove_last calls
\* have since taken it down to half of its capacity or less; get at the
\* index remove_last gave up last has just raised IndexError, the slot is
\* cleared, and the capacity is still the grown one.
C24_Witness ==
    /\ arrGrowths >= 1
    /\ arr.size >= 1
    /\ arr.size * 2 <= arr.capacity
    /\ last.op = "ArrayList.get"
    /\ last.args[1] = arr.size
    /\ last.exc = IndexError
    /\ arr.data[arr.size] = None
    /\ arr.capacity > arrArg

---------------------------------------------------------------------------
(* SpecQueueMix: a caller that makes any interleaving of enqueue and       *)
(* dequeue calls on a new Queue, dequeues on the empty queue included, as  *)
(* binary_tree_level_order does when it drains and refills its queues.     *)

MixEnqueue(v) ==
    /\ Len(queueIn) < MaxEnqueues
    /\ \E r \in {Queue_enqueue(queue, v)} :
           /\ queue' = r.a
           /\ last' = Call("Queue.enqueue", <<v>>, LinkedList_size(queue), r)
    /\ queueIn' = Append(queueIn, v)
    /\ queueRef' = Append(queueRef, v)
    /\ UNCHANGED <<queueOut, notQueue>>

MixDequeue ==
    /\ Len(queueOut) <= MaxEnqueues
    /\ \E r \in {Queue_dequeue(queue)} :
           /\ queue' = r.a
           /\ last' = Call("Queue.dequeue", <<>>, LinkedList_size(queue), r)
           /\ queueOut' = Append(queueOut, r.ret)
    /\ queueRef' = Rest(queueRef)
    /\ UNCHANGED <<queueIn, notQueue>>

QueueMixNext ==
    \/ \E v \in QueueValues : MixEnqueue(v)
    \/ MixDequeue

SpecQueueMix == NewInit /\ [][QueueMixNext]_vars

\* The values met from _head along the next links, oldest first; the empty
\* sequence when a link within size leads nowhere.
ChainValues(l) ==
    LET chain == ChainFrom(l)
    IN  IF \A k \in 0 .. l.size - 1 : chain[k] \in DOMAIN l.nodes
        THEN [k \in 1 .. l.size |-> l.nodes[chain[k - 1]].val]
        ELSE <<>>

\* C25: under any interleaving of enqueue and dequeue a Queue is the
\* reference FIFO sequence queueRef: the values on the chain from _head are
\* the values enqueued and not yet dequeued, oldest first, and the chain
\* ends there; dequeue returns the oldest of them, None when there is
\* none; no call raises.  The values dequeued so far followed by the values
\* still queued are the values enqueued, in order: none is lost or returned
\* twice, through every drain to empty and refill.
C25_QueueRefinesFifo ==
    /\ [](/\ LinkedList_size(queue) = Len(queueRef)
          /\ ChainValues(queue) = queueRef
          /\ ChainFrom(queue)[LinkedList_size(queue)] = None
          /\ SelectSeq(queueOut, LAMBDA v : v # None) \o queueRef = queueIn
          /\ last.exc = NoExc)
    /\ [][last'.op = "Queue.dequeue" =>
              last'.ret = IF queueRef = <<>> THEN None
                          ELSE Head(queueRef)]_vars

\* C25 witness: a dequeue found the queue drained to empty, after elements
\* had been dequeued from it; two elements were enqueued later and dequeue
\* has just returned the older of them, the younger, a different value,
\* being at the head now.
C25_Witness ==
    /\ last.op = "Queue.dequeue"
    /\ last.pre = 2
    /\ Len(queueOut) >= 3
    /\ queueOut[1] # None
    /\ queueOut[Len(queueOut) - 1] = None
    /\ last.ret = queueIn[Len(queueIn) - 1]
    /\ queueRef = <<queueIn[Len(queueIn)]>>
    /\ last.ret # queueIn[Len(queueIn)]

---------------------------------------------------------------------------
(* Functions of solutions.py that use the heaps.  A Python list argument   *)
(* is a function on 0 .. len - 1, as _data is.  Each function is run one   *)
(* turn of its loops at a time in sol; its local heap is minHeap (and      *)
(* maxHeap for MedianFinder.low).                                          *)

\* The lists of length lo .. hi over the set S.
Lists(S, lo, hi) == UNION {[0 .. n - 1 -> S] : n \in lo .. hi}

\* Everything the functions do not touch, as constructed.
LibraryNew ==
    /\ ArrNew(DefaultCapacity)
    /\ StackNew /\ QueueNew /\ HeapNew
    /\ filled = {}
    /\ gen = NotCalled
    /\ frame = NoFrame
    /\ last = NoCall

notSol ==
    <<arrVars, stackVars, queueVars, filled, gen, frame, sortIn, minOut,
      maxOut, minBag, maxBag>>

\* Variant of the loop body of kth_largest_in_array that pops as soon as
\* the heap holds k elements.
kth_largest_in_array_turn_early_pop(heap, num, k) ==
    With(MinHeap_push(heap, num), LAMBDA pushed :
        IF pushed.exc # NoExc THEN pushed
        ELSE IF MinHeap_size(pushed.a) >= k THEN MinHeap_pop(pushed.a)
        ELSE pushed)

\* The loop body of kth_largest_in_array for nums[i] = num.
kth_largest_in_array_turn(heap, num, k) ==
    With(MinHeap_push(heap, num), LAMBDA pushed :
        IF pushed.exc # NoExc THEN pushed
        ELSE IF MinHeap_size(pushed.a) > k THEN MinHeap_pop(pushed.a)
        ELSE pushed)

---------------------------------------------------------------------------
(* SpecKthLargest: kth_largest_in_array(nums, k) for every short list of   *)
(* small positive integers and every k from 1 to len(nums).                *)

MaxNums == 5

NumValues == 1 .. MaxHeapVal

KthCalled(nums, k) ==
    [fn |-> "kth_largest_in_array", nums |-> nums, k |-> k, i |-> 0,
     pc |-> "while", ret |-> None, exc |-> NoExc]

KthInit ==
    /\ LibraryNew
    /\ \E nums \in Lists(NumValues, 1, MaxNums) :
           \E k \in 1 .. ListLen(nums) : sol = KthCalled(nums, k)

\* One turn of the while loop.
KthTurn ==
    /\ sol.fn = "kth_largest_in_array"
    /\ sol.pc = "while"
    /\ sol.i < ListLen(sol.nums)
    /\ \E r \in {kth_largest_in_array_turn(minHeap, sol.nums[sol.i], sol.k)} :
           /\ minHeap' = r.a
           /\ sol' = IF r.exc # NoExc
                     THEN [sol EXCEPT !.exc = r.exc, !.pc = "done"]
                     ELSE [sol EXCEPT !.i = sol.i + 1]
    /\ UNCHANGED <<maxHeap, last, notSol>>

\* The loop test fails: return heap.peek().
KthReturn ==
    /\ sol.fn = "kth_largest_in_array"
    /\ sol.pc = "while"
    /\ ~(sol.i < ListLen(sol.nums))
    /\ \E r \in {MinHeap_peek(minHeap)} :
           /\ minHeap' = r.a
           /\ sol' = [sol EXCEPT !.ret = r.ret, !.exc = r.exc, !.pc = "done"]
           /\ last' = Call("kth_largest_in_array", <<sol.k>>,
                           ListLen(sol.nums), r)
    /\ UNCHANGED <<maxHeap, notSol>>

KthNext == KthTurn \/ KthReturn

SpecKthLargest == KthInit /\ [][KthNext]_vars

\* How many of the first n elements of the list are above x, and how many
\* are x or above.
Above(nums, n, x) == Cardinality({j \in 0 .. n - 1 : nums[j] > x})

AtLeast(nums, n, x) == Cardinality({j \in 0 .. n - 1 : nums[j] >= x})

\* The m-th largest of the first n elements, duplicates counted.
NthLargest(nums, n, m) ==
    CHOOSE x \in {nums[j] : j \in 0 .. n - 1} :
        Above(nums, n, x) < m /\ m <= AtLeast(nums, n, x)

\* The m largest of the first n elements, as value -> copies.
Largest(nums, n, m) ==
    IF m = 0 THEN EmptyBag
    ELSE LET t == NthLargest(nums, n, m)
             top == {x \in {nums[j] : j \in 0 .. n - 1} : x >= t}
         IN  [x \in top |->
                 IF x = t THEN m - Above(nums, n, t)
                 ELSE AtLeast(nums, n, x) - Above(nums, n, x)]

\* C30: after i turns of the loop of kth_largest_in_array the heap holds
\* exactly the min(k, i) largest of the first i values of nums, so never
\* more than k; for 1 <= k <= len(nums) the function returns the k-th
\* largest element of nums, duplicates counted, and raises nothing.
C30_KthLargest ==
    sol.fn = "kth_largest_in_array" =>
        /\ sol.exc = NoExc
        /\ MinHeap_size(minHeap) = (IF sol.k < sol.i THEN sol.k ELSE sol.i)
        /\ HeapBag(minHeap) = Largest(sol.nums, sol.i, MinHeap_size(minHeap))
        /\ sol.pc = "done" =>
               /\ sol.i = ListLen(sol.nums)
               /\ sol.ret = NthLargest(sol.nums, ListLen(sol.nums), sol.k)

\* C30 witness: the function has returned 2 as the third largest of five
\* numbers, two of which are 3 and two 2, the last one a 2: the heap had to
\* keep one copy of the value it returns and to pop the other.
C30_Witness ==
    /\ sol.fn = "kth_largest_in_array"
    /\ sol.pc = "done"
    /\ ListLen(sol.nums) = MaxNums
    /\ sol.k = 3
    /\ sol.ret = 2
    /\ Cardinality({j \in DOMAIN sol.nums : sol.nums[j] = 2}) = 2
    /\ Cardinality({j \in DOMAIN sol.nums : sol.nums[j] = 3}) = 2
    /\ sol.nums[0] = 3 /\ sol.nums[4] = 2

---------------------------------------------------------------------------
(* class MedianFinder: low is a MaxHeap (maxHeap), high a MinHeap          *)
(* (minHeap).  An outcome is [low, high, ret, exc].                        *)

\* The first statement of add_num: num goes to low or to high.
MedianFinder_add_num_place(low, high, num) ==
    With(IF MaxHeap_size(low) = 0 THEN Return(low, TRUE)
         ELSE With(MaxHeap_peek(low), LAMBDA top :
                  IF top.exc # NoExc THEN top
                  ELSE Return(top.a, num <= top.ret)), LAMBDA test :
        IF test.exc # NoExc
        THEN [low |-> test.a, high |-> high, ret |-> None, exc |-> test.exc]
        ELSE IF test.ret
        THEN With(MaxHeap_push(test.a, num), LAMBDA pushed :
                 [low |-> pushed.a, high |-> high, ret |-> None,
                  exc |-> pushed.exc])
        ELSE With(MinHeap_push(high, num), LAMBDA pushed :
                 [low |-> test.a, high |-> pushed.a, ret |-> None,
                  exc |-> pushed.exc]))

\* high.push(low.pop())
MedianFinder_low_to_high(low, high) ==
    With(MaxHeap_pop(low), LAMBDA popped :
        IF popped.exc # NoExc
        THEN [low |-> popped.a, high |-> high, ret |-> None,
              exc |-> popped.exc]
        ELSE With(MinHeap_push(high, popped.ret), LAMBDA pushed :
                 [low |-> popped.a, high |-> pushed.a, ret |-> None,
                  exc |-> pushed.exc]))

\* low.push(high.pop())
MedianFinder_high_to_low(low, high) ==
    With(MinHeap_pop(high), LAMBDA popped :
        IF popped.exc # NoExc
        THEN [low |-> low, high |-> popped.a, ret |-> None,
              exc |-> popped.exc]
        ELSE With(MaxHeap_push(low, popped.ret), LAMBDA pushed :
                 [low |-> pushed.a, high |-> popped.a, ret |-> None,
                  exc |-> pushed.exc]))

\* Variant of add_num without the elif branch that moves an element from
\* high to low.
MedianFinder_add_num_no_elif(low, high, num) ==
    With(MedianFinder_add_num_place(low, high, num), LAMBDA placed :
        IF placed.exc # NoExc THEN placed
        ELSE IF MaxHeap_size(placed.low) > MinHeap_size(placed.high) + 1
        THEN MedianFinder_low_to_high(placed.low, placed.high)
        ELSE placed)

MedianFinder_add_num(low, high, num) ==
    With(MedianFinder_add_num_place(low, high, num), LAMBDA placed :
        IF placed.exc # NoExc THEN placed
        ELSE IF MaxHeap_size(placed.low) > MinHeap_size(placed.high) + 1
        THEN MedianFinder_low_to_high(placed.low, placed.high)
        ELSE IF MinHeap_size(placed.high) > MaxHeap_size(placed.low)
        THEN MedianFinder_high_to_low(placed.low, placed.high)
        ELSE placed)

\* find_median returns a float; ret here is twice that float, an integer:
\* float(x) is 2 * x halves and (x + y) / 2.0 is x + y halves, both exact
\* for the integers used.  None + None raises TypeError.
MedianFinder_find_median(low, high) ==
    IF MaxHeap_size(low) > MinHeap_size(high)
    THEN With(MaxHeap_peek(low), LAMBDA lo :
             [low |-> lo.a, high |-> high,
              ret |-> IF lo.exc = NoExc THEN 2 * lo.ret ELSE None,
              exc |-> lo.exc])
    ELSE With(MaxHeap_peek(low), LAMBDA lo :
        IF lo.exc # NoExc
        THEN [low |-> lo.a, high |-> high, ret |-> None, exc |-> lo.exc]
        ELSE With(MinHeap_peek(high), LAMBDA hi :
                 IF hi.exc # NoExc
                 THEN [low |-> lo.a, high |-> hi.a, ret |-> None,
                       exc |-> hi.exc]
                 ELSE IF lo.ret = None \/ hi.ret = None
                 THEN [low |-> lo.a, high |-> hi.a, ret |-> None,
                       exc |-> TypeError]
                 ELSE [low |-> lo.a, high |-> hi.a, ret |-> lo.ret + hi.ret,
                       exc |-> NoExc]))

---------------------------------------------------------------------------
(* SpecMedian: a caller of a new MedianFinder that makes any sequence of   *)
(* add_num and find_median calls; sol.nums is the list of the numbers      *)
(* given to add_num so far.                                                *)

MedianNew == [fn |-> "MedianFinder", nums |-> <<>>]

MedianInit == LibraryNew /\ sol = MedianNew

AddNum(num) ==
    /\ sol.fn = "MedianFinder"
    /\ ListLen(sol.nums) < MaxNums
    /\ \E r \in {MedianFinder_add_num(maxHeap, minHeap, num)} :
           /\ maxHeap' = r.low
           /\ minHeap' = r.high
           /\ last' = Call("MedianFinder.add_num", <<num>>,
                           ListLen(sol.nums), r)
    /\ sol' = [sol EXCEPT !.nums =
                  [j \in 0 .. ListLen(sol.nums) |->
                      IF j = ListLen(sol.nums) THEN num ELSE sol.nums[j]]]
    /\ UNCHANGED notSol

FindMedian ==
    /\ sol.fn = "MedianFinder"
    /\ \E r \in {MedianFinder_find_median(maxHeap, minHeap)} :
           /\ maxHeap' = r.low
           /\ minHeap' = r.high
           /\ last' = Call("MedianFinder.find_median", <<>>,
                           ListLen(sol.nums), r)
    /\ UNCHANGED <<sol, notSol>>

MedianNext ==
    \/ \E num \in NumValues : AddNum(num)
    \/ FindMedian

SpecMedian == MedianInit /\ [][MedianNext]_vars

\* The elements an ArrayList holds.
Held_values(h) == {h.data[i] : i \in 0 .. ArrayList_size(h) - 1}

\* C28: after every add_num call, low has as many elements as high or one
\* more, no element of low is above an element of high, and the two hold
\* between them the numbers added, as many as add_num was called; for
\* n >= 1 numbers find_median returns the middle one of them in order when
\* n is odd and the mean of the two middle ones when n is even (last.ret
\* is twice the float returned).  No call with n >= 1 raises.
C28_MedianFinder ==
    sol.fn = "MedianFinder" =>
        LET n == ListLen(sol.nums)
            low == MaxHeap_size(maxHeap)
            high == MinHeap_size(minHeap)
        IN  /\ low = high \/ low = high + 1
            /\ \A x \in Held_values(maxHeap), y \in Held_values(minHeap) :
                   x <= y
            /\ low + high = n
            /\ HeapBag(maxHeap) (+) HeapBag(minHeap) = Largest(sol.nums, n, n)
            /\ n >= 1 => last.exc = NoExc
            /\ last.op = "MedianFinder.find_median" /\ n >= 1 =>
                   last.ret =
                       IF n % 2 = 1
                       THEN 2 * NthLargest(sol.nums, n, (n + 1) \div 2)
                       ELSE NthLargest(sol.nums, n, n \div 2)
                                + NthLargest(sol.nums, n, n \div 2 + 1)

\* C28 witness: find_median has returned a mean that is not an integer,
\* for four numbers given in descending order, so that elements moved
\* from low to high on the way.
C28_Witness ==
    /\ sol.fn = "MedianFinder"
    /\ last.op = "MedianFinder.find_median"
    /\ ListLen(sol.nums) = 4
    /\ last.ret % 2 = 1
    /\ \A j \in 0 .. 2 : sol.nums[j] >= sol.nums[j + 1]
    /\ sol.nums[0] > sol.nums[3]

\* C28 witness of the odd case: find_median has returned the middle one of
\* five numbers given in ascending order, not all equal.
C28_WitnessOdd ==
    /\ sol.fn = "MedianFinder"
    /\ last.op = "MedianFinder.find_median"
    /\ ListLen(sol.nums) = 5
    /\ \A j \in 0 .. 3 : sol.nums[j] <= sol.nums[j + 1]
    /\ sol.nums[0] < sol.nums[4]
    /\ last.ret = 2 * sol.nums[2]

---------------------------------------------------------------------------
(* Tuples in a heap.  The heaps compare their elements with < and <=,      *)
(* which Python defines on tuples as the lexicographic order of their      *)
(* components.  A pair (first, second) of small non-negative integers is   *)
(* the integer first * PairBase + second here: second < PairBase, so the   *)
(* order of the integers is the lexicographic order of the pairs, and the  *)
(* heap operators above compare them as the code compares the tuples.      *)

PairBase == MaxHeapVal + MaxNums + 1

Pair(first, second) == first * PairBase + second

\* pair[0] and pair[1]
First(pair) == pair \div PairBase

Second(pair) == pair % PairBase

\* A dict is [keys, at]: keys lists the keys in insertion order, which is
\* the order  for key in freq  takes them in; at maps each key to its value.
EmptyDict == [keys |-> <<>>, at |-> <<>>]

\* freq[val] = freq.get(val, 0) + 1
Counted(freq, val) ==
    IF val \in DOMAIN freq.at
    THEN [freq EXCEPT !.at[val] = freq.at[val] + 1]
    ELSE [keys |-> Append(freq.keys, val),
          at |-> [x \in DOMAIN freq.at \cup {val} |->
                     IF x = val THEN 1 ELSE freq.at[x]]]

\* Variant of the body of the for loop of top_k_frequent that pushes
\* (key, freq[key]).
top_k_frequent_turn_key_first(heap, freq, key, k) ==
    With(MinHeap_push(heap, Pair(key, freq.at[key])), LAMBDA pushed :
        IF pushed.exc # NoExc THEN pushed
        ELSE IF MinHeap_size(pushed.a) > k THEN MinHeap_pop(pushed.a)
        ELSE pushed)

\* The body of the for loop of top_k_frequent.
top_k_frequent_turn(heap, freq, key, k) ==
    With(MinHeap_push(heap, Pair(freq.at[key], key)), LAMBDA pushed :
        IF pushed.exc # NoExc THEN pushed
        ELSE IF MinHeap_size(pushed.a) > k THEN MinHeap_pop(pushed.a)
        ELSE pushed)

\* heap.pop()[1]: None has no component.
top_k_frequent_take(heap) ==
    With(MinHeap_pop(heap), LAMBDA popped :
        IF popped.exc # NoExc THEN popped
        ELSE IF popped.ret = None THEN Raise(popped.a, TypeError)
        ELSE Return(popped.a, Second(popped.ret)))

---------------------------------------------------------------------------
(* SpecTopK: top_k_frequent(nums, k) for every short list of small         *)
(* positive integers and every k from 1 to the number of distinct values.  *)

TopKCalled(nums, k) ==
    [fn |-> "top_k_frequent", nums |-> nums, k |-> k, freq |-> EmptyDict,
     i |-> 0, at |-> 1, result |-> <<>>, pc |-> "count", exc |-> NoExc]

TopKInit ==
    /\ LibraryNew
    /\ \E nums \in Lists(NumValues, 1, MaxNums) :
           \E k \in 1 .. Cardinality({nums[j] : j \in DOMAIN nums}) :
               sol = TopKCalled(nums, k)

\* One turn of the loop that counts, or its exit.
TopKCount ==
    /\ sol.fn = "top_k_frequent"
    /\ sol.pc = "count"
    /\ sol' = IF sol.i < ListLen(sol.nums)
              THEN [sol EXCEPT !.freq = Counted(sol.freq, sol.nums[sol.i]),
                               !.i = sol.i + 1]
              ELSE [sol EXCEPT !.pc = "for"]
    /\ UNCHANGED <<minHeap, maxHeap, last, notSol>>

\* One turn of  for key in freq; sol.at is the place of key in freq.
TopKFor ==
    /\ sol.fn = "top_k_frequent"
    /\ sol.pc = "for"
    /\ sol.at <= Len(sol.freq.keys)
    /\ \E r \in {top_k_frequent_turn(minHeap, sol.freq,
                                     sol.freq.keys[sol.at], sol.k)} :
           /\ minHeap' = r.a
           /\ sol' = IF r.exc # NoExc
                     THEN [sol EXCEPT !.exc = r.exc, !.pc = "done"]
                     ELSE [sol EXCEPT !.at = sol.at + 1]
    /\ UNCHANGED <<maxHeap, last, notSol>>

\* The for loop is over: result = [0] * k, i = k - 1.
TopKResult ==
    /\ sol.fn = "top_k_frequent"
    /\ sol.pc = "for"
    /\ sol.at > Len(sol.freq.keys)
    /\ sol' = [sol EXCEPT !.result = [j \in 0 .. sol.k - 1 |-> 0],
                          !.i = sol.k - 1, !.pc = "while"]
    /\ UNCHANGED <<minHeap, maxHeap, last, notSol>>

\* One turn of the loop that fills result from its end.
TopKTake ==
    /\ sol.fn = "top_k_frequent"
    /\ sol.pc = "while"
    /\ sol.i >= 0
    /\ \E r \in {top_k_frequent_take(minHeap)} :
           /\ minHeap' = r.a
           /\ sol' = IF r.exc # NoExc
                     THEN [sol EXCEPT !.exc = r.exc, !.pc = "done"]
                     ELSE [sol EXCEPT !.result[sol.i] = r.ret,
                                      !.i = sol.i - 1]
    /\ UNCHANGED <<maxHeap, last, notSol>>

TopKReturn ==
    /\ sol.fn = "top_k_frequent"
    /\ sol.pc = "while"
    /\ ~(sol.i >= 0)
    /\ sol' = [sol EXCEPT !.pc = "done"]
    /\ last' = Call("top_k_frequent", <<sol.k>>, ListLen(sol.nums),
                    Return(minHeap, sol.result))
    /\ UNCHANGED <<minHeap, maxHeap, notSol>>

TopKNext ==
    \/ TopKCount
    \/ TopKFor
    \/ TopKResult
    \/ TopKTake
    \/ TopKReturn

SpecTopK == TopKInit /\ [][TopKNext]_vars

\* How often x occurs in the list.
Occurrences(nums, x) == Cardinality({j \in DOMAIN nums : nums[j] = x})

\* The pair is first in the lexicographic order among the pairs held:
\* none has a smaller first component, and none with the same first
\* component has a smaller second one.
LeastPair(pair, held) ==
    \A q \in held :
        \/ First(pair) < First(q)
        \/ First(pair) = First(q) /\ Second(pair) <= Second(q)

\* C23: the MinHeap of top_k_frequent holds (frequency, key) pairs and
\* orders them as pairs: every pop returns a pair of the smallest
\* frequency held and, among those, of the smallest key.  After each turn
\* of the for loop the heap holds at most k pairs, each a key seen so far
\* with its frequency; for 1 <= k <= number of distinct values the function
\* returns k distinct values of nums in non-increasing order of frequency,
\* no value left out being more frequent than one returned, and raises
\* nothing.
C23_TopKFrequent ==
    /\ [](sol.fn = "top_k_frequent" =>
             /\ sol.exc = NoExc
             /\ MinHeap_size(minHeap) <= sol.k
             /\ \A pair \in Held_values(minHeap) :
                    /\ Second(pair) \in {sol.nums[j] : j \in DOMAIN sol.nums}
                    /\ First(pair) = Occurrences(sol.nums, Second(pair))
             /\ sol.pc = "done" =>
                    /\ ListLen(sol.result) = sol.k
                    /\ \A a, b \in DOMAIN sol.result :
                           /\ a # b => sol.result[a] # sol.result[b]
                           /\ a < b =>
                                  Occurrences(sol.nums, sol.result[a])
                                      >= Occurrences(sol.nums, sol.result[b])
                    /\ \A a \in DOMAIN sol.result, j \in DOMAIN sol.nums :
                           \/ \E b \in DOMAIN sol.result :
                                  sol.result[b] = sol.nums[j]
                           \/ Occurrences(sol.nums, sol.nums[j])
                                  <= Occurrences(sol.nums, sol.result[a]))
    /\ [][/\ sol.pc = "while" /\ sol'.pc = "while" =>
                 \E pair \in Held_values(minHeap) :
                     /\ LeastPair(pair, Held_values(minHeap))
                     /\ sol'.result[sol.i] = Second(pair)
                     /\ HeapBag(minHeap) =
                            HeapBag(minHeap') (+) SetToBag({pair})
          /\ sol.pc = "for" /\ sol'.pc = "for"
                 /\ MinHeap_size(minHeap) = sol.k =>
                     LET key == sol.freq.keys[sol.at]
                         pushed == Pair(sol.freq.at[key], key)
                     IN  \E pair \in Held_values(minHeap) \cup {pushed} :
                             /\ LeastPair(pair, Held_values(minHeap'))
                             /\ HeapBag(minHeap') (+) SetToBag({pair}) =
                                    HeapBag(minHeap) (+) SetToBag({pushed})]_vars

\* C23 witness: the function has returned two of three distinct values;
\* the two less frequent values are equally frequent, and of these the one
\* with the larger key is returned, the pair with the smaller key having
\* been popped first.
C23_Witness ==
    /\ sol.fn = "top_k_frequent"
    /\ sol.pc = "done"
    /\ sol.k = 2
    /\ Len(sol.freq.keys) = 3
    /\ sol.result[1] = 2
    /\ Occurrences(sol.nums, 1) = Occurrences(sol.nums, 2)
    /\ Occurrences(sol.nums, 3) > Occurrences(sol.nums, 2)
    /\ sol.result[0] = 3

---------------------------------------------------------------------------
(* merge_k_sorted_lists.  The ListNode objects live in a memory, a         *)
(* function from node identity to [val, next]; identity 0 is the dummy     *)
(* node the function makes.  A heap entry (val, idx, node) is the integer  *)
(* (val * EntryBase + idx) * EntryBase + node, with idx and node below     *)
(* EntryBase: its integer order is the lexicographic order on (val, idx)   *)
(* wherever two entries differ in val or idx, which is as far as Python    *)
(* can compare the tuples, ListNode having no order.                       *)

MaxLists == 3

MaxListLen == 2

\* The values the nodes hold: the function only compares them, and two
\* values give every order and every tie between the heads of the lists.
NodeValues == {1, 2}

EntryBase == MaxLists * MaxListLen + 1

Entry(val, idx, node) == (val * EntryBase + idx) * EntryBase + node

\* The components of an entry, and its part (val, idx) as one number.
EntryVal(entry) == entry \div (EntryBase * EntryBase)

EntryIdx(entry) == (entry \div EntryBase) % EntryBase

EntryNode(entry) == entry % EntryBase

EntryKey(entry) == entry \div EntryBase

Dummy == 0

\* Variant of the loop body that pushes the successor under index 0.
merge_k_sorted_lists_turn_index_zero(heap, nodes, current) ==
    With(MinHeap_pop(heap), LAMBDA popped :
        IF popped.exc # NoExc
        THEN [a |-> popped.a, nodes |-> nodes, current |-> current,
              exc |-> popped.exc]
        ELSE LET node == EntryNode(popped.ret)
                 linked == [nodes EXCEPT ![current].next = node]
             IN  IF linked[node].next # None
                 THEN With(MinHeap_push(popped.a,
                               Entry(linked[linked[node].next].val, 0,
                                     linked[node].next)), LAMBDA pushed :
                          [a |-> pushed.a, nodes |-> linked,
                           current |-> node, exc |-> pushed.exc])
                 ELSE [a |-> popped.a, nodes |-> linked, current |-> node,
                       exc |-> NoExc])

\* The body of the first loop:  if lists[i]: heap.push(...).
merge_k_sorted_lists_head(heap, nodes, lists, i) ==
    IF lists[i] # None
    THEN MinHeap_push(heap, Entry(nodes[lists[i]].val, i, lists[i]))
    ELSE Return(heap, None)

\* The body of the second loop: the outcome is the heap a, the memory and
\* current.
merge_k_sorted_lists_turn(heap, nodes, current) ==
    With(MinHeap_pop(heap), LAMBDA popped :
        IF popped.exc # NoExc
        THEN [a |-> popped.a, nodes |-> nodes, current |-> current,
              exc |-> popped.exc]
        ELSE LET node == EntryNode(popped.ret)
                 idx == EntryIdx(popped.ret)
                 linked == [nodes EXCEPT ![current].next = node]
             IN  IF linked[node].next # None
                 THEN With(MinHeap_push(popped.a,
                               Entry(linked[linked[node].next].val, idx,
                                     linked[node].next)), LAMBDA pushed :
                          [a |-> pushed.a, nodes |-> linked,
                           current |-> node, exc |-> pushed.exc])
                 ELSE [a |-> popped.a, nodes |-> linked, current |-> node,
                       exc |-> NoExc])

---------------------------------------------------------------------------
(* SpecMergeK: merge_k_sorted_lists(lists) for every list of up to         *)
(* MaxLists linked lists, each sorted, of up to MaxListLen nodes of its    *)
(* own, empty lists (None) included.  sol.popped is the record of the      *)
(* nodes popped, in order.                                                 *)

\* The sorted sequences of values a linked list may hold.
SortedSeqs ==
    {s \in UNION {[1 .. n -> NodeValues] : n \in 0 .. MaxListLen} :
        \A j \in 1 .. Len(s) - 1 : s[j] <= s[j + 1]}

\* The identity of the p-th node of the list at index i.
NodeId(i, p) == i * MaxListLen + p

\* The index of the list the node was given in.
ListOf(node) == (node - 1) \div MaxListLen

\* The memory that holds a linked list of its own for each sequence of
\* vals, and the list of their heads.
NodesOf(vals) ==
    [node \in UNION {{NodeId(i, p) : p \in 1 .. Len(vals[i])} :
                         i \in DOMAIN vals} |->
        LET i == ListOf(node)
            p == node - i * MaxListLen
        IN  ListNode(vals[i][p],
                     IF p < Len(vals[i]) THEN NodeId(i, p + 1) ELSE None)]

HeadsOf(vals) ==
    [i \in DOMAIN vals |-> IF vals[i] = <<>> THEN None ELSE NodeId(i, 1)]

MergeCalled(vals) ==
    [fn |-> "merge_k_sorted_lists", lists |-> HeadsOf(vals),
     nodes |-> NodesOf(vals), i |-> 0, current |-> None, pc |-> "heads",
     ret |-> None, exc |-> NoExc, popped |-> <<>>]

MergeInit ==
    /\ LibraryNew
    /\ \E vals \in Lists(SortedSeqs, 0, MaxLists) : sol = MergeCalled(vals)

\* One turn of the first loop.
MergeHead ==
    /\ sol.fn = "merge_k_sorted_lists"
    /\ sol.pc = "heads"
    /\ sol.i < ListLen(sol.lists)
    /\ \E r \in {merge_k_sorted_lists_head(minHeap, sol.nodes, sol.lists,
                                           sol.i)} :
           /\ minHeap' = r.a
           /\ sol' = IF r.exc # NoExc
                     THEN [sol EXCEPT !.exc = r.exc, !.pc = "done"]
                     ELSE [sol EXCEPT !.i = sol.i + 1]
    /\ UNCHANGED <<maxHeap, last, notSol>>

\* The first loop is over: dummy = ListNode(0), current = dummy.
MergeDummy ==
    /\ sol.fn = "merge_k_sorted_lists"
    /\ sol.pc = "heads"
    /\ ~(sol.i < ListLen(sol.lists))
    /\ sol' = [sol EXCEPT
                  !.nodes = [node \in DOMAIN sol.nodes \cup {Dummy} |->
                                IF node = Dummy THEN ListNode(0, None)
                                ELSE sol.nodes[node]],
                  !.current = Dummy, !.pc = "while"]
    /\ UNCHANGED <<minHeap, maxHeap, last, notSol>>

\* One turn of the second loop.
MergeTurn ==
    /\ sol.fn = "merge_k_sorted_lists"
    /\ sol.pc = "while"
    /\ MinHeap_size(minHeap) > 0
    /\ \E r \in {merge_k_sorted_lists_turn(minHeap, sol.nodes,
                                           sol.current)} :
           /\ minHeap' = r.a
           /\ sol' = IF r.exc # NoExc
                     THEN [sol EXCEPT !.exc = r.exc, !.pc = "done"]
                     ELSE [sol EXCEPT !.nodes = r.nodes,
                                      !.current = r.current,
                                      !.popped = Append(sol.popped, r.current)]
    /\ UNCHANGED <<maxHeap, last, notSol>>

MergeReturn ==
    /\ sol.fn = "merge_k_sorted_lists"
    /\ sol.pc = "while"
    /\ ~(MinHeap_size(minHeap) > 0)
    /\ sol' = [sol EXCEPT !.ret = sol.nodes[Dummy].next, !.pc = "done"]
    /\ last' = Call("merge_k_sorted_lists", <<>>, ListLen(sol.lists),
                    Return(minHeap, sol.nodes[Dummy].next))
    /\ UNCHANGED <<minHeap, maxHeap, notSol>>

MergeNext ==
    \/ MergeHead
    \/ MergeDummy
    \/ MergeTurn
    \/ MergeReturn

SpecMergeK == MergeInit /\ [][MergeNext]_vars

\* The node k links away from the node start along next, None past the end.
NodeChain(nodes, start) ==
    LET nth[k \in 0 .. Cardinality(DOMAIN nodes)] ==
            IF k = 0 THEN start
            ELSE IF nth[k - 1] \notin DOMAIN nodes THEN None
            ELSE nodes[nth[k - 1]].next
    IN  nth

\* C29: during merge_k_sorted_lists no two entries of the heap have the
\* same list index, so no two agree on value and index and no comparison
\* gets as far as the nodes; each entry is a node of the list of its index
\* with that node's value, a node not popped before.  The nodes are popped
\* in non-decreasing order of value, none twice; when the function returns
\* every node of every list has been popped and the list returned links
\* them in the order they were popped.  Nothing raises.
C29_MergeK ==
    sol.fn = "merge_k_sorted_lists" =>
        LET held == 0 .. MinHeap_size(minHeap) - 1
            entry == minHeap.data
            given == DOMAIN sol.nodes \ {Dummy}
        IN  /\ sol.exc = NoExc
            /\ \A p, q \in held :
                   p # q =>
                       /\ EntryIdx(entry[p]) # EntryIdx(entry[q])
                       /\ EntryKey(entry[p]) # EntryKey(entry[q])
            /\ \A p \in held :
                   /\ EntryNode(entry[p]) \in given
                   /\ ListOf(EntryNode(entry[p])) = EntryIdx(entry[p])
                   /\ sol.nodes[EntryNode(entry[p])].val = EntryVal(entry[p])
                   /\ \A k \in DOMAIN sol.popped :
                          sol.popped[k] # EntryNode(entry[p])
            /\ \A j, k \in DOMAIN sol.popped :
                   j < k =>
                       /\ sol.popped[j] # sol.popped[k]
                       /\ sol.nodes[sol.popped[j]].val
                              <= sol.nodes[sol.popped[k]].val
            /\ sol.pc = "done" =>
                   /\ {sol.popped[k] : k \in DOMAIN sol.popped} = given
                   /\ \A k \in DOMAIN sol.popped :
                          NodeChain(sol.nodes, sol.ret)[k - 1] = sol.popped[k]
                   /\ NodeChain(sol.nodes, sol.ret)[Len(sol.popped)] = None

\* C29 witness: three lists of two nodes each were given, all six nodes of
\* the same value, so that the entries in the heap differed by their index
\* alone; the function has returned, having popped the second node of the
\* first list ahead of the first node of the second list.
C29_Witness ==
    /\ sol.fn = "merge_k_sorted_lists"
    /\ sol.pc = "done"
    /\ Len(sol.popped) = MaxLists * MaxListLen
    /\ \A node \in DOMAIN sol.nodes \ {Dummy} :
           sol.nodes[node].val = sol.nodes[1].val
    /\ sol.popped[2] = NodeId(0, 2)
    /\ sol.popped[3] = NodeId(1, 1)

\* C29 witness of the order by value: the first node of the last list was
\* popped ahead of the second node of the first list, which holds more.
C29_WitnessByValue ==
    /\ sol.fn = "merge_k_sorted_lists"
    /\ sol.pc = "done"
    /\ ListLen(sol.lists) = MaxLists
    /\ sol.lists[1] = None
    /\ Len(sol.popped) >= 3
    /\ sol.popped[2] = NodeId(MaxLists - 1, 1)
    /\ sol.popped[3] = NodeId(0, 2)
    /\ sol.nodes[sol.popped[2]].val < sol.nodes[sol.popped[3]].val

=============================================================================
